---------------------------- MODULE Spec2Model ----------------------------
(***************************************************************************)
(* Model of the story-retrieval bot in src/main.py: the fallback chain     *)
(* over the four scraping engines, the failure tracker, the link decoding  *)
(* and validation chain, the chronological sort, the Telegram delivery     *)
(* loop with its history file, and the end-of-run health check.            *)
(*                                                                         *)
(* Strings are modelled as sequences of tokens.  A token is a piece of a   *)
(* URL that the code never cuts in two: a separator ("/", "?", "&"), the   *)
(* scheme ("https:"), a host, a path segment, a query key ("url=") or the  *)
(* percent-encoded form of one of these ("%2F", "https%3A").               *)
(***************************************************************************)
EXTENDS Integers, Sequences, FiniteSets, TLC

(***************************************************************************)
(* Sequence helpers: Python's str.split / slicing on token sequences.      *)
(***************************************************************************)
Range(s) == {s[i] : i \in DOMAIN s}

Min(S) == CHOOSE x \in S : \A y \in S : x <= y

Max(S) == CHOOSE x \in S : \A y \in S : x >= y

\* index of the first / last occurrence of token t in s, 0 when absent
FirstIdx(s, t) == IF t \in Range(s) THEN Min({i \in DOMAIN s : s[i] = t}) ELSE 0

LastIdx(s, t) == IF t \in Range(s) THEN Max({i \in DOMAIN s : s[i] = t}) ELSE 0

\* s.split(t)[0]
SplitFirst(s, t) == IF FirstIdx(s, t) = 0 THEN s ELSE SubSeq(s, 1, FirstIdx(s, t) - 1)

\* s.split(t)[-1]
SplitLast(s, t) == SubSeq(s, LastIdx(s, t) + 1, Len(s))

\* s.split(t)[1], for s that contains t
SplitSecond(s, t) == SplitFirst(SubSeq(s, FirstIdx(s, t) + 1, Len(s)), t)

\* p in s, for a pattern p that is a run of whole tokens
ContainsSeq(s, p) == \E i \in 1..(Len(s) - Len(p) + 1) : SubSeq(s, i, i + Len(p) - 1) = p

StartsWith(s, p) == Len(s) >= Len(p) /\ SubSeq(s, 1, Len(p)) = p

\* s without its repeated elements, first occurrences kept in order; the two
\* halves of s are handled in turn, which keeps the evaluation shallow
RECURSIVE Dedup(_)
Dedup(s) ==
    IF Len(s) <= 1 THEN s
    ELSE LET m     == Len(s) \div 2
             left  == Dedup(SubSeq(s, 1, m))
             right == Dedup(SubSeq(s, m + 1, Len(s)))
         IN left \o SelectSeq(right, LAMBDA x : x \notin Range(left))

(***************************************************************************)
(* Tokens.                                                                 *)
(***************************************************************************)
\* urllib.parse.unquote on one token: one level of percent-decoding
Unq1(t) ==
    CASE t = "https%3A"   -> "https:"
      [] t = "%2F"        -> "/"
      [] t = "%3F"        -> "?"
      [] t = "sig%3D1"    -> "sig=1"
      [] t = "https%253A" -> "https%3A"
      [] t = "%252F"      -> "%2F"
      [] t = "%253F"      -> "%3F"
      [] t = "sig%253D1"  -> "sig%3D1"
      [] OTHER            -> t

\* urllib.parse.quote on one token (what the proxy sites do to the inner URL)
Quote1(t) ==
    CASE t = "https:"   -> "https%3A"
      [] t = "/"        -> "%2F"
      [] t = "?"        -> "%3F"
      [] t = "sig=1"    -> "sig%3D1"
      [] t = "https%3A" -> "https%253A"
      [] t = "%2F"      -> "%252F"
      [] t = "%3F"      -> "%253F"
      [] t = "sig%3D1"  -> "sig%253D1"
      [] OTHER          -> t

\* "%" in t
HasPercentTok(t) ==
    t \in {"https%3A", "%2F", "%3F", "sig%3D1", "https%253A", "%252F", "%253F", "sig%253D1"}

\* number of characters of a token
TokLen(t) ==
    CASE t \in {"/", "?", "&", " "}                     -> 1
      [] t \in {"%2F", "%3F"}                           -> 3
      [] t \in {"%252F", "%253F", "sig=1", "page", "url=", "a.jpg", "b.mp4", "c.jpg", "x.cc"} -> 5
      [] t \in {"https:", "media=", "file="}            -> 6
      [] t \in {"sig%3D1"}                              -> 7
      [] t \in {"https%3A", "img2.php"}                 -> 8
      [] t \in {"media.php", "sig%253D1", "filename="}  -> 9
      [] t \in {"https%253A"}                           -> 10
      [] t \in {"example.org"}                          -> 11
      [] t \in {"download-file"}                        -> 13
      [] t \in {"instasaved.net"}                       -> 14
      [] t \in {"anon-viewer.com", "cdn.iqsaved.com", "stories-cdn.fun"} -> 15
      [] t \in {"scontent.cdninstagram.com"}            -> 25
      [] OTHER                                          -> 24

RECURSIVE StrLen(_)
StrLen(s) == IF s = <<>> THEN 0 ELSE TokLen(Head(s)) + StrLen(Tail(s))

\* the substrings, among those the code searches for, that a token contains
SubstringsOf(t) ==
    CASE t = "scontent.cdninstagram.com" ->
            {"scontent.cdninstagram.com", "cdninstagram.com", "instagram.com"}
      [] t = "a.jpg"    -> {".jpg"}
      [] t = "c.jpg"    -> {".jpg"}
      [] t = "b.mp4"    -> {".mp4"}
      [] t = "https:"   -> {"http"}
      [] t = "https%3A" -> {"http"}
      [] t = "https%253A" -> {"http"}
      [] OTHER          -> {t}

\* p in s, for a pattern p that lies inside one token
HasSub(s, p) == \E i \in DOMAIN s : p \in SubstringsOf(s[i])

\* "%" in s
HasPercent(s) == \E i \in DOMAIN s : HasPercentTok(s[i])

\* urllib.parse.unquote
unquote(s) == [i \in 1..Len(s) |-> Unq1(s[i])]

\* urllib.parse.quote, applied by the proxy sites to the URL they wrap
quote(s) == [i \in 1..Len(s) |-> Quote1(s[i])]

\* str.strip
RECURSIVE LStrip(_)
LStrip(s) == IF s # <<>> /\ Head(s) = " " THEN LStrip(Tail(s)) ELSE s

RECURSIVE RStrip(_)
RStrip(s) == IF s # <<>> /\ s[Len(s)] = " " THEN RStrip(SubSeq(s, 1, Len(s) - 1)) ELSE s

Strip(s) == RStrip(LStrip(s))

\* s[-n:], exact when the cut falls between two tokens
RECURSIVE LastChars(_, _)
LastChars(s, n) ==
    IF s = <<>> \/ TokLen(s[Len(s)]) > n THEN <<>>
    ELSE Append(LastChars(SubSeq(s, 1, Len(s) - 1), n - TokLen(s[Len(s)])), s[Len(s)])

\* urlparse(url).query: what follows the first "?"
UrlQuery(url) == IF "?" \in Range(url) THEN SubSeq(url, FirstIdx(url, "?") + 1, Len(url)) ELSE <<>>

\* the "&"-separated fields of a query string
RECURSIVE QueryFields(_)
QueryFields(q) ==
    IF q = <<>> THEN <<>>
    ELSE IF "&" \in Range(q)
         THEN <<SplitFirst(q, "&")>> \o QueryFields(SubSeq(q, FirstIdx(q, "&") + 1, Len(q)))
         ELSE <<q>>

\* parse_qs(query)[key][0], percent-decoded once as parse_qs does; <<>> when the
\* key is absent (parse_qs drops blank values, so a present value is never empty)
QueryGet(url, key) ==
    LET fs   == QueryFields(UrlQuery(url))
        hits == {i \in DOMAIN fs : Len(fs[i]) >= 2 /\ fs[i][1] = key}
    IN IF hits = {} THEN <<>> ELSE unquote(Tail(fs[Min(hits)]))

(***************************************************************************)
(* The artifact URLs of the model and their base64 forms.                  *)
(***************************************************************************)
\* photo a.jpg on the Instagram CDN
UrlA == <<"https:", "/", "/", "scontent.cdninstagram.com", "/", "a.jpg">>

\* video b.mp4 on the Instagram CDN
UrlB == <<"https:", "/", "/", "scontent.cdninstagram.com", "/", "b.mp4">>

\* photo a.jpg again, under another path and with a signature
UrlA2 == <<"https:", "/", "/", "scontent.cdninstagram.com", "/", "v", "/", "a.jpg", "?", "sig=1">>

\* a page that is no Instagram media
UrlX == <<"https:", "/", "/", "example.org", "/", "page">>

\* base64.b64decode(tok).decode('utf-8') after the padding is restored; <<>> when
\* the decoding raises
B64Decode(tok) ==
    CASE tok = "aHR0cHM6Ly.A" -> UrlA
      [] tok = "aHR0cHM6Ly.B" -> UrlB
      [] OTHER                -> <<>>

\* tok starts with "aHR0cHM6Ly", the base64 form of "https://"
IsB64Tok(tok) == tok \in {"aHR0cHM6Ly.A", "aHR0cHM6Ly.B", "aHR0cHM6Ly.bad"}

(***************************************************************************)
(* Link decoding.                                                          *)
(***************************************************************************)
\* decode_mollygram_url; <<>> stands for None
decode_mollygram_url(proxy_url) ==
    LET media_param  == QueryGet(proxy_url, "media=")
        first_decode == unquote(media_param)
        final_url    == unquote(first_decode)
    IN IF media_param = <<>> THEN <<>>
       ELSE IF HasPercent(final_url) THEN unquote(final_url) ELSE final_url

\* extract_real_url
extract_real_url(iqsaved_url) ==
    IF ContainsSeq(iqsaved_url, <<"img2.php", "?", "url=">>)
    THEN IF QueryGet(iqsaved_url, "url=") # <<>>
         THEN unquote(unquote(QueryGet(iqsaved_url, "url=")))
         ELSE iqsaved_url
    ELSE IF "filename=" \in Range(iqsaved_url)
         THEN unquote(SplitFirst(SplitSecond(iqsaved_url, "filename="), "&"))
         ELSE iqsaved_url

\* the base64 string extract_instasaved_url cuts out of the decoded file
\* parameter; <<>> when it finds none
InstasavedBase64(file_decoded) ==
    LET n     == Len(file_decoded)
        after(sep) == {i \in 2..n : file_decoded[i - 1] = sep /\ IsB64Tok(file_decoded[i])}
        any   == {i \in 1..n : IsB64Tok(file_decoded[i])}
        rest(i) == SubSeq(file_decoded, i, n)
    IN IF after("/") # {}
       THEN SplitFirst(SplitFirst(rest(Min(after("/"))), "?"), "&")
       ELSE IF after("?") # {}
            THEN SplitFirst(rest(Min(after("?"))), "&")
            ELSE IF any # {}
                 THEN SplitFirst(SplitFirst(rest(Min(any)), "&"), " ")
                 ELSE <<>>

\* extract_instasaved_url
extract_instasaved_url(instasaved_url) ==
    LET decoded_once  == unquote(instasaved_url)
        file_param    == SplitFirst(SplitSecond(decoded_once, "file="), "&")
        file_decoded  == unquote(file_param)
        base64_string == InstasavedBase64(file_decoded)
        instagram_url == IF Len(base64_string) = 1 THEN B64Decode(base64_string[1]) ELSE <<>>
    IN IF "file=" \notin Range(decoded_once) THEN instasaved_url
       ELSE IF base64_string = <<>> THEN instasaved_url
       ELSE IF instagram_url = <<>> THEN instasaved_url
       ELSE instagram_url

\* validate_url_format: urlparse gives a scheme and a netloc, and len(url) >= 10
validate_url_format(url) ==
    /\ Len(url) >= 4
    /\ url[1] \in {"https:", "http:"}
    /\ url[2] = "/" /\ url[3] = "/"
    /\ url[4] \notin {"/", "?", "&", " "}
    /\ StrLen(url) >= 10

\* the allow-list of validate_links
instagram_patterns ==
    {"cdninstagram.com", "scontent.cdninstagram.com", "fbcdn.net", "instagram.f",
     "instagram.com", "scontent-", ".mp4", ".jpg", ".jpeg", ".png", ".webp"}

\* the link one raw link becomes in validate_links, <<>> when it is rejected
ValidateOne(raw) ==
    LET link == Strip(raw)
        real_url == IF "cdn.iqsaved.com" \in Range(link) THEN extract_real_url(link)
                    ELSE extract_instasaved_url(link)
        proxied == \/ "cdn.iqsaved.com" \in Range(link)
                   \/ ("instasaved.net" \in Range(link) /\ "download-file" \in Range(link))
        conv == IF proxied THEN real_url ELSE link
    IN IF raw = <<>> \/ StrLen(link) < 10 THEN <<>>
       ELSE IF proxied /\ (real_url = <<>> \/ real_url = link \/ ~validate_url_format(real_url))
            THEN <<>>
       ELSE IF ~validate_url_format(conv) THEN <<>>
       ELSE IF ~(\E p \in instagram_patterns : HasSub(conv, p)) THEN <<>>
       ELSE IF ~(conv[1] \in {"https:", "http:"} /\ StartsWith(Tail(conv), <<"/", "/">>)) THEN <<>>
       ELSE conv

\* validate_links with a fault: the final pass over valid_links is left out
validate_links_without_final_pass(links) ==
    LET converted == [i \in 1..Len(links) |-> ValidateOne(links[i])]
    IN SelectSeq(converted, LAMBDA l : l # <<>>)

\* validate_links
validate_links(links) ==
    LET converted == [i \in 1..Len(links) |-> ValidateOne(links[i])]
        valid_links == SelectSeq(converted, LAMBDA l : l # <<>>)
    IN Dedup(valid_links)

\* get_clean_id
get_clean_id(url) ==
    LET file == QueryGet(url, "file=")
        insta_url == unquote(file)
    IN IF ContainsSeq(url, <<"instasaved.net", "/", "download-file">>) /\ file # <<>>
       THEN IF "/" \in Range(insta_url)
            THEN SplitFirst(SplitLast(insta_url, "/"), "?")
            ELSE LastChars(insta_url, 20)
       ELSE IF "/" \in Range(url)
            THEN SplitFirst(SplitLast(url, "/"), "?")
            ELSE LastChars(url, 20)

(***************************************************************************)
(* Failure tracker (failure_tracker.json) and adaptive timeout.            *)
(***************************************************************************)
Sites == {"Mollygram", "StoriesViewer", "Instasaved", "IQSaved"}

\* the statuses the engines and the orchestrator produce
Statuses ==
    {"SUCCESS", "NO_STORIES", "SERVER_UNAVAILABLE", "NO_LINKS", "HTTP_ERROR", "INPUT_ERROR",
     "TIMEOUT", "CRASH", "FATAL_ERROR", "RETRY_FAILED", "ALL_RETRIES_FAILED"}

\* the content track_failure starts from when failure_tracker.json does not exist;
\* a site missing from "consecutive_fails" reads as 0
NoFailureFile ==
    [consecutive_fails |-> [s \in Sites |-> 0], total_runs |-> 0, successful_runs |-> 0]

\* the statuses on which track_failure resets the counter
ResetStatuses == {"SUCCESS", "NO_STORIES", "SERVER_UNAVAILABLE"}

\* track_failure with a fault: NO_STORIES counts as a failure
track_failure_counting_no_stories(data, site, status, io_ok) ==
    LET new_data ==
            [consecutive_fails |->
                [data.consecutive_fails EXCEPT ![site] =
                    IF status \in {"SUCCESS", "SERVER_UNAVAILABLE"} THEN 0
                    ELSE data.consecutive_fails[site] + 1],
             total_runs |-> data.total_runs + 1,
             successful_runs |-> data.successful_runs + (IF status = "SUCCESS" THEN 1 ELSE 0)]
    IN IF io_ok
       THEN [file |-> new_data, returned |-> new_data.consecutive_fails[site], raised |-> FALSE]
       ELSE [file |-> data, returned |-> 0, raised |-> FALSE]

\* track_failure with a fault: no except clause, the error of the file leaves
\* the function
track_failure_without_except(data, site, status, io_ok) ==
    LET new_data ==
            [consecutive_fails |->
                [data.consecutive_fails EXCEPT ![site] =
                    IF status \in ResetStatuses THEN 0 ELSE data.consecutive_fails[site] + 1],
             total_runs |-> data.total_runs + 1,
             successful_runs |-> data.successful_runs + (IF status = "SUCCESS" THEN 1 ELSE 0)]
    IN IF io_ok
       THEN [file |-> new_data, returned |-> new_data.consecutive_fails[site], raised |-> FALSE]
       ELSE [file |-> data, returned |-> 0, raised |-> TRUE]

\* track_failure(site, status): file the content written to failure_tracker.json,
\* returned the value returned, raised whether an exception leaves the call.
\* io_ok tells whether the file could be read and written; when it could not,
\* the except clause returns 0 and nothing is written
track_failure(data, site, status, io_ok) ==
    LET new_data ==
            [consecutive_fails |->
                [data.consecutive_fails EXCEPT ![site] =
                    IF status \in ResetStatuses THEN 0 ELSE data.consecutive_fails[site] + 1],
             total_runs |-> data.total_runs + 1,
             successful_runs |-> data.successful_runs + (IF status = "SUCCESS" THEN 1 ELSE 0)]
    IN IF io_ok
       THEN [file |-> new_data, returned |-> new_data.consecutive_fails[site], raised |-> FALSE]
       ELSE [file |-> data, returned |-> 0, raised |-> FALSE]

\* what a call has of failure_tracker.json when it cannot open or parse it
Unreadable == [error |-> "OSError"]

\* get_consecutive_fails(site) when the file holds data: the counter of the
\* site, and 0 after the bare except when the file cannot be read
get_consecutive_fails(data, site) ==
    IF data = Unreadable THEN 0 ELSE data.consecutive_fails[site]

\* get_adaptive_timeout with a fault: the longer timeout starts above 3 failures
get_adaptive_timeout_above_three(data, site_name, base_timeout) ==
    LET consecutive_fails == get_consecutive_fails(data, site_name)
    IN IF consecutive_fails > 3
       THEN Min({60000, base_timeout + consecutive_fails * 5000})
       ELSE IF consecutive_fails = 0
            THEN Max({15000, base_timeout - 5000})
            ELSE base_timeout

\* get_adaptive_timeout with a fault: a reliable site keeps the base timeout
get_adaptive_timeout_not_reduced(data, site_name, base_timeout) ==
    LET consecutive_fails == get_consecutive_fails(data, site_name)
    IN IF consecutive_fails >= 3
       THEN Min({60000, base_timeout + consecutive_fails * 5000})
       ELSE IF consecutive_fails = 0
            THEN Max({15000, base_timeout})
            ELSE base_timeout

\* get_adaptive_timeout with a fault: the failures shorten the timeout
get_adaptive_timeout_shrinking(data, site_name, base_timeout) ==
    LET consecutive_fails == get_consecutive_fails(data, site_name)
    IN IF consecutive_fails >= 3
       THEN Min({60000, base_timeout - consecutive_fails * 5000})
       ELSE IF consecutive_fails = 0
            THEN Max({15000, base_timeout - 5000})
            ELSE base_timeout

\* get_adaptive_timeout
get_adaptive_timeout(data, site_name, base_timeout) ==
    LET consecutive_fails == get_consecutive_fails(data, site_name)
    IN IF consecutive_fails >= 3
       THEN Min({60000, base_timeout + consecutive_fails * 5000})
       ELSE IF consecutive_fails = 0
            THEN Max({15000, base_timeout - 5000})
            ELSE base_timeout

(***************************************************************************)
(* Chronological sort.                                                     *)
(***************************************************************************)
\* the largest origin timestamp a probe returns in the model
MaxTs == 2

\* float('inf'): what _get_url_timestamp returns when it finds no date
Inf == MaxTs + 1

\* the cap of sort_links_chronologically
max_links_to_sort == 100

\* key=lambda x: (-x[1], x[2]) with a fault: the oldest first
key_less_ascending(x, y) == (x[2] < y[2]) \/ (x[2] = y[2] /\ x[3] < y[3])

\* key=lambda x: (-x[1], x[2]) with a fault: the index is left out of the key
key_less_without_index(x, y) == -x[2] < -y[2]

\* key=lambda x: (-x[1], x[2]) as an order on the tuples (url, timestamp, index):
\* the key of x is less than the key of y
key_less(x, y) == (-x[2] < -y[2]) \/ (x[2] = y[2] /\ x[3] < y[3])

\* list.sort(key=...) with a fault: the list is left as as_completed filled it
sort_by_key_left_out(l) == l

\* list.sort(key=...) : a stable sort, item j comes before item k when its key
\* is less, or when neither key is less and j is before k in the list
sort_by_key(l) ==
    LET before(j, k) == key_less(l[j], l[k]) \/ (~key_less(l[k], l[j]) /\ j < k)
        rank == [k \in DOMAIN l |-> Cardinality({j \in DOMAIN l : before(j, k)})]
    IN \* (the comparison has the table of rank computed once)
       CASE rank = rank -> [r \in 1..Len(l) |-> l[CHOOSE k \in DOMAIN l : rank[k] = r - 1]]

\* the orders in which n concurrent probes can complete
CompletionOrders(n) == {order \in [1..n -> 1..n] : \A j, k \in 1..n : j # k => order[j] # order[k]}

\* links_with_dates as as_completed fills it: ts[k] is the timestamp that
\* _get_url_timestamp gives for links_to_sort[k], order the order of completion
probe_results(links_to_sort, ts, order) ==
    [k \in 1..Len(links_to_sort) |-> <<links_to_sort[order[k]], ts[order[k]], order[k]>>]

\* sort_links_chronologically, for the timestamps ts and the completion order
\* of the probes of the first max_links_to_sort links
sort_links_chronologically(links, ts, order) ==
    LET n == Min({Len(links), max_links_to_sort})
        sorted == sort_by_key(probe_results(SubSeq(links, 1, n), ts, order))
    IN IF Len(links) <= 1 THEN links
       ELSE [k \in 1..n |-> sorted[k][1]] \o SubSeq(links, n + 1, Len(links))

(***************************************************************************)
(* Union of the engines' links and selection of the new stories.           *)
(***************************************************************************)
\* the elements of l at the positions of the set P, in the order of l
at_positions(l, P) ==
    [k \in 1..Cardinality(P) |-> l[CHOOSE p \in P : Cardinality({q \in P : q < p}) = k - 1]]

\* add_links_safe with a fault: a later link with the same clean id takes the
\* place of the one kept before
add_links_safe_last_wins(all_links, source_links) ==
    LET l == all_links \o source_links
    IN at_positions(l, {p \in DOMAIN l :
                           /\ get_clean_id(l[p]) # <<>>
                           /\ \A q \in DOMAIN l : q > p => get_clean_id(l[q]) # get_clean_id(l[p])})

\* add_links_safe: source_links appended to all_links, one link per clean id;
\* the loop over source_links is followed half by half
RECURSIVE add_links_safe(_, _)
add_links_safe(all_links, source_links) ==
    IF source_links = <<>> THEN all_links
    ELSE IF Len(source_links) = 1
    THEN LET url == source_links[1]
             clean_id == get_clean_id(url)
             seen_urls == {get_clean_id(all_links[k]) : k \in DOMAIN all_links}
         IN IF clean_id # <<>> /\ clean_id \notin seen_urls
            THEN Append(all_links, url) ELSE all_links
    ELSE LET first == add_links_safe(all_links, SubSeq(source_links, 1, Len(source_links) \div 2))
         IN CASE Len(first) >= Len(all_links) ->
                 add_links_safe(first, SubSeq(source_links, Len(source_links) \div 2 + 1,
                                              Len(source_links)))

\* the selection loop with a fault: the ids of the history are forgotten, a link
\* is compared only with the ids taken in this loop
RECURSIVE new_stories_fresh_only(_, _, _)
new_stories_fresh_only(links, seen_processing_ids, acc) ==
    IF links = <<>> THEN acc
    ELSE LET url == Head(links)
             clean_id == get_clean_id(url)
         IN IF clean_id # <<>> /\ clean_id \notin {acc[k].id : k \in DOMAIN acc}
            THEN new_stories_fresh_only(Tail(links), seen_processing_ids,
                                        Append(acc, [url |-> url, id |-> clean_id]))
            ELSE new_stories_fresh_only(Tail(links), seen_processing_ids, acc)

\* the loop that fills storie_da_processare: links whose id is neither in the
\* history read at start nor already taken in this loop; the loop over links
\* is followed half by half, acc being the stories taken so far
RECURSIVE new_stories(_, _, _)
new_stories(links, seen_processing_ids, acc) ==
    IF links = <<>> THEN acc
    ELSE IF Len(links) = 1
    THEN LET url == links[1]
             clean_id == get_clean_id(url)
         IN IF clean_id # <<>> /\ clean_id \notin seen_processing_ids
            THEN Append(acc, [url |-> url, id |-> clean_id])
            ELSE acc
    ELSE LET first == new_stories(SubSeq(links, 1, Len(links) \div 2), seen_processing_ids, acc)
         IN new_stories(SubSeq(links, Len(links) \div 2 + 1, Len(links)),
                        seen_processing_ids \cup {first[k].id : k \in DOMAIN first}, first)

(***************************************************************************)
(* What the pages of the four engines can hold.                            *)
(***************************************************************************)
\* a Mollygram download link: the media URL percent-encoded twice
MollyProxy(u) ==
    <<"https:", "/", "/", "anon-viewer.com", "/", "media.php", "?", "media=">> \o quote(quote(u))

\* a Mollygram download link without its media parameter
MollyNoMedia == <<"https:", "/", "/", "anon-viewer.com", "/", "media.php">>

\* a StoriesViewer download link: the media URL percent-encoded once
ViewerProxy(u) ==
    <<"https:", "/", "/", "anon-viewer.com", "/", "media.php", "?", "media=">> \o quote(u)

\* an Instasaved download link: the file parameter is a CDN URL whose path is
\* the base64 form b of the media URL
InstaProxy(b) ==
    <<"https:", "/", "/", "instasaved.net", "/", "download-file", "?", "file=">>
        \o quote(<<"https:", "/", "/", "stories-cdn.fun", "/", b>>) \o <<"&", "fileType=image">>

\* an Instasaved download link given as a relative href
InstaRelative == <<"/", "download-file", "?", "file=", "aHR0cHM6Ly.A">>

\* an IQSaved download link
IqProxy(u) ==
    <<"https:", "/", "/", "cdn.iqsaved.com", "/", "img2.php", "?", "url=">> \o quote(u)

\* the href lists the Mollygram page can give (proxy_urls, already without repeats)
MollyHrefs ==
    {<<>>, <<MollyProxy(UrlA)>>, <<MollyProxy(UrlX)>>, <<MollyProxy(UrlA), MollyProxy(UrlB)>>,
     <<MollyNoMedia>>}

\* the href lists of a[href*="media.php"] the StoriesViewer page can give
ViewerHrefs ==
    {<<>>, <<ViewerProxy(UrlA)>>, <<ViewerProxy(UrlB), ViewerProxy(UrlA2)>>, <<ViewerProxy(UrlX)>>}

\* the href lists of a[href*="download-file"] the Instasaved page can give
InstaHrefs ==
    {<<InstaProxy("aHR0cHM6Ly.A")>>, <<InstaProxy("aHR0cHM6Ly.bad")>>,
     <<InstaProxy("aHR0cHM6Ly.B"), InstaProxy("aHR0cHM6Ly.A")>>, <<InstaRelative>>}

\* the link lists check_iqsaved can build: list(set(links)) comes in any order;
\* the last one is a download link that wraps another download link
IqHrefs ==
    {<<>>, <<IqProxy(UrlA)>>, <<IqProxy(UrlX)>>,
     <<IqProxy(UrlA), IqProxy(UrlB)>>, <<IqProxy(UrlB), IqProxy(UrlA)>>,
     <<IqProxy(IqProxy(UrlB))>>}

\* the links check_mollygram builds from proxy_urls
MollyLinks(proxy_urls) ==
    SelectSeq([i \in 1..Len(proxy_urls) |-> decode_mollygram_url(proxy_urls[i])],
              LAMBDA direct : direct # <<>>)

\* the links check_storiesviewer collects from the raw hrefs, before validation
ViewerCollect(raw) ==
    LET clean(raw_url) == unquote(SplitFirst(SplitSecond(raw_url, "media="), "&"))
        with_media == SelectSeq(raw, LAMBDA raw_url : "media=" \in Range(raw_url))
    IN SelectSeq([i \in 1..Len(with_media) |-> clean(with_media[i])],
                 LAMBDA clean_url : HasSub(clean_url, "cdninstagram.com"))

\* unique_links of check_instasaved
InstaLinks(hrefs) ==
    Dedup(SelectSeq(hrefs, LAMBDA href : href # <<>> /\ "http" \in SubstringsOf(href[1])))

(***************************************************************************)
(* One call of an engine.  The page is the environment: out names the path *)
(* the call takes through the function.  The result says how the call      *)
(* ends: kind "return" (links, status), "again" (the function's own retry  *)
(* loop goes round), "raise" (an exception leaves the function) or         *)
(* "escape" (an exception leaves the safe_check wrapper too); track tells  *)
(* whether track_failure was called, and tracked with which status.        *)
(***************************************************************************)
Result(kind, links, status, track, tracked) ==
    [kind |-> kind, links |-> links, status |-> status, track |-> track, tracked |-> tracked]

Return(links, status) == Result("return", links, status, TRUE, status)

ReturnUntracked(links, status) == Result("return", links, status, FALSE, status)

Again == Result("again", <<>>, "UNKNOWN", FALSE, "UNKNOWN")

Raise == Result("raise", <<>>, "UNKNOWN", FALSE, "UNKNOWN")

Escape == Result("escape", <<>>, "UNKNOWN", FALSE, "UNKNOWN")

\* max_retries of check_mollygram
molly_max_retries == 3

\* max_retries that safe_check_storiesviewer passes to retry_storiesviewer
viewer_max_retries == 3

\* max_retries that run passes to retry_with_backoff
run_max_retries == 1

MollyOutcomes == {"GOTO_TIMEOUT", "INPUT_ERROR", "NOT_FOUND", "EXTRACT", "EXCEPTION", "RAISE", "ESCAPE"}

\* pass number attempt of the loop of check_mollygram
check_mollygram(attempt, out, proxy_urls) ==
    LET last == (attempt = molly_max_retries - 1)
        next == IF last THEN ReturnUntracked(<<>>, "NO_LINKS") ELSE Again
    IN CASE out = "RAISE"  -> Raise
         [] out = "ESCAPE" -> Escape
         [] out = "NOT_FOUND" -> IF last THEN ReturnUntracked(<<>>, "NO_STORIES") ELSE Again
         [] out = "EXTRACT" /\ Len(proxy_urls) > 0 -> Return(MollyLinks(proxy_urls), "SUCCESS")
         [] OTHER -> next

ViewerOutcomes ==
    {"HTTP_ERROR", "INPUT_ERROR", "SERVER_UNAVAILABLE", "NO_STORIES", "EXTRACT", "CRASH",
     "RAISE", "RELOAD_RAISE", "ESCAPE"}

\* how check_storiesviewer ends on path out: links are the validated links of the
\* page, collected the links appended when the exception of path "CRASH" comes,
\* timeout tells whether the wait for the story elements timed out
storiesviewer_return(out, links, collected, timeout) ==
    CASE out \in {"HTTP_ERROR", "INPUT_ERROR", "SERVER_UNAVAILABLE", "NO_STORIES"} ->
                Return(<<>>, out)
      [] out = "CRASH" -> Return(collected, "CRASH")
      [] out \in {"EXTRACT", "RELOAD_RAISE"} ->
                IF links # <<>> THEN Return(links, "SUCCESS")
                ELSE Return(<<>>, IF timeout THEN "TIMEOUT" ELSE "NO_LINKS")
      [] OTHER -> Raise

\* check_storiesviewer: raw are the hrefs of the page, and on "CRASH" the
\* exception comes when k hrefs have been read
check_storiesviewer(out, raw, timeout, k) ==
    storiesviewer_return(out, validate_links(ViewerCollect(raw)),
                         ViewerCollect(SubSeq(raw, 1, k)), timeout)

\* pass number attempt of the loop of retry_storiesviewer, r being what
\* check_storiesviewer gave; on "RELOAD_RAISE" page.reload() raises, in the loop
\* and again in the except clause
storiesviewer_pass(attempt, out, r) ==
    IF out = "ESCAPE" THEN Escape
    ELSE IF r.kind = "raise"
         THEN IF attempt < viewer_max_retries THEN Again
              ELSE ReturnUntracked(<<>>, "RETRY_FAILED")
    ELSE IF r.links # <<>> \/ r.status \in {"NO_STORIES", "SERVER_UNAVAILABLE"} THEN r
    ELSE IF attempt < viewer_max_retries
         THEN Result(IF out = "RELOAD_RAISE" THEN "raise" ELSE "again",
                     <<>>, "UNKNOWN", TRUE, r.status)
         ELSE Result("return", <<>>, "ALL_RETRIES_FAILED", TRUE, r.status)

\* retry_storiesviewer, pass number attempt
retry_storiesviewer(attempt, out, raw, timeout, k) ==
    storiesviewer_pass(attempt, out, check_storiesviewer(out, raw, timeout, k))

InstaOutcomes == {"HTTP_ERROR", "NO_ELEMENTS", "EXTRACT", "CRASH", "RAISE", "ESCAPE"}

\* check_instasaved
check_instasaved(out, hrefs) ==
    CASE out = "HTTP_ERROR"  -> Return(<<>>, "HTTP_ERROR")
      [] out = "NO_ELEMENTS" -> Return(<<>>, "NO_LINKS")
      [] out = "EXTRACT" ->
            IF InstaLinks(hrefs) # <<>> THEN Return(InstaLinks(hrefs), "SUCCESS")
            ELSE Return(<<>>, "NO_LINKS")
      [] out = "CRASH"  -> Return(<<>>, "CRASH")
      [] out = "RAISE"  -> Raise
      [] OTHER          -> Escape

IqOutcomes == {"HTTP_ERROR", "EXTRACT", "CRASH", "RAISE", "ESCAPE"}

\* check_iqsaved
check_iqsaved(out, links) ==
    CASE out = "HTTP_ERROR" -> Return(<<>>, "HTTP_ERROR")
      [] out = "EXTRACT" ->
            IF links # <<>> THEN Return(links, "SUCCESS") ELSE Return(<<>>, "NO_LINKS")
      [] out = "CRASH"  -> Return(<<>>, "CRASH")
      [] out = "RAISE"  -> Raise
      [] OTHER          -> Escape

\* safe_check_mollygram, safe_check_storiesviewer, safe_check_instasaved,
\* safe_check_iqsaved: an exception of the engine becomes FATAL_ERROR
safe_check(r) ==
    IF r.kind = "raise" THEN Result("return", <<>>, "FATAL_ERROR", r.track, r.tracked) ELSE r

\* retry_with_backoff as run calls it, around its except clause: an exception
\* that leaves the wrapper is retried, and after the last retry the phase ends
\* with no links and status CRASH
retry_with_backoff(r, rb) ==
    IF r.kind = "escape"
    THEN IF rb = run_max_retries THEN ReturnUntracked(<<>>, "CRASH")
         ELSE Result("retry", <<>>, "UNKNOWN", FALSE, "UNKNOWN")
    ELSE r

\* wait_time = (2 ** attempt) + 1
wait_time(attempt) == 2 ^ attempt + 1

\* one pass of the loop with a fault: the sleep comes before the test of the
\* last attempt, so that the last failure is followed by a sleep too
retry_pass_sleeping_first(max_retries, attempt, e, kept) ==
    IF e = "None" THEN [kind |-> "return", sleep |-> 0, raised |-> "None"]
    ELSE [kind |-> IF attempt = max_retries THEN "raise" ELSE "next",
          sleep |-> wait_time(attempt),
          raised |-> IF attempt = max_retries THEN e ELSE "None"]

\* one pass of the loop with a fault: the exception raised at the end is the one
\* kept from the pass before, when there is one
retry_pass_raising_kept(max_retries, attempt, e, kept) ==
    IF e = "None" THEN [kind |-> "return", sleep |-> 0, raised |-> "None"]
    ELSE IF attempt = max_retries
         THEN [kind |-> "raise", sleep |-> 0, raised |-> IF kept = "None" THEN e ELSE kept]
         ELSE [kind |-> "next", sleep |-> wait_time(attempt), raised |-> "None"]

\* one pass of the loop of retry_with_backoff(func, max_retries): e is the
\* exception func raises in this pass ("None" when it returns), kept the value
\* of last_exception before the pass.  kind tells how the pass ends: the
\* function returns, raises, or sleeps and goes to the next pass
retry_pass(max_retries, attempt, e, kept) ==
    IF e = "None" THEN [kind |-> "return", sleep |-> 0, raised |-> "None"]
    ELSE IF attempt = max_retries
         THEN [kind |-> "raise", sleep |-> 0, raised |-> e]
         ELSE [kind |-> "next", sleep |-> wait_time(attempt), raised |-> "None"]

(***************************************************************************)
(* The conditions of run on which the next engine is tried.                *)
(***************************************************************************)
TryViewer(lm) == lm = <<>>

\* the condition of phase 3 with a fault: the links of StoriesViewer are not looked at
TryInsta_without_viewer(lm, lv) == lm = <<>>

TryInsta(lm, lv) == lm = <<>> /\ lv = <<>>

\* the condition of phase 4 with a fault: the links of Instasaved are not looked at
TryIq_without_insta(lm, lv, li) == lm = <<>> /\ lv = <<>>

TryIq(lm, lv, li) == lm = <<>> /\ lv = <<>> /\ li = <<>>

(***************************************************************************)
(* Health check at the end of run.                                         *)
(***************************************************************************)
any_success(ms, lm, vs, lv, is, li, qs, lq) ==
    \/ (ms = "SUCCESS" /\ Len(lm) > 0)
    \/ (vs = "SUCCESS" /\ Len(lv) > 0)
    \/ (is = "SUCCESS" /\ Len(li) > 0)
    \/ (qs = "SUCCESS" /\ Len(lq) > 0)

\* all_no_links with a fault: the status of StoriesViewer is not looked at
all_no_links_without_viewer(m_status, v_status, i_status) ==
    /\ m_status \in {"NO_LINKS", "NOT_TESTED"}
    /\ i_status \in {"NO_LINKS", "NOT_TESTED", "SKIPPED_SUCCESS"}

all_no_links(m_status, v_status, i_status) ==
    /\ m_status \in {"NO_LINKS", "NOT_TESTED"}
    /\ v_status \in {"NO_LINKS", "NOT_TESTED", "SKIPPED_SUCCESS"}
    /\ i_status \in {"NO_LINKS", "NOT_TESTED", "SKIPPED_SUCCESS"}

\* whether run sends the critical alert
sends_critical_alert(ms, lm, vs, lv, is, li, qs, lq) ==
    ~any_success(ms, lm, vs, lv, is, li, qs, lq) /\ ~all_no_links(ms, vs, is)

(***************************************************************************)
(* Delivery and history.                                                   *)
(***************************************************************************)
SOGLIA_ALLUVIONE == 150

MAX_HISTORY == 300

\* the URL run hands to send_telegram for an item: an IQSaved link is converted
media_url_of(url) ==
    IF ContainsSeq(url, <<"cdn.iqsaved.com", "/", "img2.php">>) THEN extract_real_url(url) ELSE url

\* is_video
is_video(url) == HasSub(url, ".mp4") \/ HasSub(url, "video")

\* send_telegram(text, media_url, is_video): ok tells whether the request to
\* Telegram went through.  Its except clause catches every Exception and sends
\* a text message instead, so that the call returns in both cases
send_telegram(ok) == "returned"

\* the calls of send_telegram with a fault: the loop makes no call for the item
deliveries_after_no_call(deliveries, item, url, ok) == deliveries

\* the calls send_telegram(dida, url, is_video) made so far, after the one for
\* item; error tells that the request to Telegram failed
deliveries_after(deliveries, item, url, ok) ==
    Append(deliveries, [url |-> url, id |-> item.id, is_video |-> is_video(url), error |-> ~ok])

\* the delays of the sending loop, in hundredths of a second
base_delay == 120

max_delay == 350

min_delay == 80

\* the try statement of the sending loop after send_telegram ended as said by
\* outcome, for item idx (from 0) of n: the new consecutive_success and the
\* time.sleep made (0: none)
pace(outcome, idx, n, successes) ==
    IF outcome = "raised"
    THEN [consecutive_success |-> 0,
          sleep_time |-> IF idx < n - 1 THEN max_delay ELSE 0]
    ELSE [consecutive_success |-> successes + 1,
          sleep_time |-> IF idx < n - 1
                         THEN Max({min_delay,
                                   Min({base_delay + idx * 25 - (successes + 1) * 5, max_delay})})
                         ELSE 0]

\* the lines run writes to history.txt with a fault: the first MAX_HISTORY ids
\* are kept
saved_history_keeping_oldest(seen, ids_added) ==
    LET updated_history == seen \o ids_added
        n == Len(updated_history)
    IN IF n > MAX_HISTORY THEN SubSeq(updated_history, 1, MAX_HISTORY)
       ELSE updated_history

\* the lines of history.txt with a fault: the file is opened for appending, so
\* that the lines read at the start stay in front of the lines written
saved_history_in_append_mode(seen, ids_added) ==
    LET updated_history == seen \o ids_added
        n == Len(updated_history)
    IN seen \o (IF n > MAX_HISTORY THEN SubSeq(updated_history, n - MAX_HISTORY + 1, n)
                ELSE updated_history)

\* the lines run writes to history.txt
saved_history(seen, ids_added) ==
    LET updated_history == seen \o ids_added
        n == Len(updated_history)
    IN IF n > MAX_HISTORY THEN SubSeq(updated_history, n - MAX_HISTORY + 1, n)
       ELSE updated_history

(***************************************************************************)
(* State.                                                                  *)
(***************************************************************************)
VARIABLES
    history,              \* history.txt: the ids already handled, oldest first
    failure_file,         \* failure_tracker.json
    pc,                   \* where run is
    attempt,              \* pass of the engine's own retry loop
    rb_attempt,           \* attempt of retry_with_backoff
    run_no,               \* runs started so far
    seen_ids,             \* history.txt as read at the start of the run
    links_molly, molly_status,
    links_viewer, storiesviewer_status,
    links_insta, insta_status,
    links_iq, iqsaved_status,
    tutti_i_link,         \* the validated, sorted links
    storie_da_processare, \* the new stories: [url, id]
    ids_to_add,
    i,                    \* stories handled by the sending loop
    sent,                 \* the send_telegram calls with media of this run
    critical_alerts,      \* critical alerts sent in this run
    calls,                \* per site: calls of its safe_check wrapper in this run
    records,              \* per site: track_failure calls in this run
    delivered_before,     \* ids sent to Telegram in earlier runs
    status_log,           \* per site: the track_failure calls made on their own
    last_record,          \* the last of these calls and what it returned
    adjusted_timeout,     \* the last call of get_adaptive_timeout and its value
    prev_timeout,         \* the call of get_adaptive_timeout before that one
    rb_max_retries,       \* retry_with_backoff on its own: its max_retries
    rb_state,             \* "idle", "running", "returned", "raised" or "cancelled"
    rb_calls,             \* calls of func made
    rb_failures,          \* the exceptions of func that the except clause caught, in order
    rb_sleeps,            \* the time.sleep calls made, in order
    last_exception,       \* last_exception of retry_with_backoff
    rb_result,            \* what retry_with_backoff returned
    rb_raised,            \* the exception retry_with_backoff raised
    error_log,            \* the RETRY_FAILED entries written to error_log.txt
    sort_input,           \* sort_links_chronologically on its own: its argument
    completed,            \* links_with_dates as the probes completed: (url, timestamp, index)
    links_with_dates,     \* links_with_dates after its sort
    sorted_links,         \* what sort_links_chronologically returned
    consecutive_success,  \* consecutive_success of the sending loop
    sleep_time,           \* its last time.sleep, in hundredths of a second (0: none)
    validate_input,       \* validate_links on its own: its argument
    unique_links,         \* what validate_links returned
    union_input,          \* the union of run on its own: the raw links of the engines
    union_links,          \* all_links after add_links_safe
    run_error,            \* the exception that escaped the body of run ("None": none)
    run_raised,           \* the exception run raised to its caller
    cleanup_attempted,    \* emergency_cleanup was called
    fatal_alert,          \* the alert of the except clause of run: "none", "sent" or "failed"
    url_cache,            \* _url_cache: per URL the entry (cached_time, cached_timestamp)
    clock,                \* time.time(), in seconds
    lookup,               \* the last call of _get_url_timestamp
    taken,                \* the executor of sort_links_chronologically: probes its workers took
    in_flight,            \* the probes a worker is running, by index
    head_answers,         \* per index, the timestamp _get_url_timestamp gives at the time
    tf_calls,             \* two callers of track_failure at once: where each one is
    last_fails_call       \* the last call of get_consecutive_fails on its own

persistent == <<history, failure_file>>

control == <<pc, attempt, rb_attempt, run_no>>

chain ==
    <<links_molly, molly_status, links_viewer, storiesviewer_status,
      links_insta, insta_status, links_iq, iqsaved_status>>

processing == <<seen_ids, tutti_i_link, storie_da_processare, ids_to_add, i>>

sink == <<sent, critical_alerts>>

counters == <<calls, records>>

tracker_calls == <<status_log, last_record>>

timeouts == <<adjusted_timeout, prev_timeout>>

retrying ==
    <<rb_max_retries, rb_state, rb_calls, rb_failures, rb_sleeps, last_exception, rb_result,
      rb_raised, error_log>>

sorting == <<sort_input, completed, links_with_dates, sorted_links>>

scheduler == <<consecutive_success, sleep_time>>

gate == <<validate_input, unique_links, union_input, union_links>>

fatal == <<run_error, run_raised, cleanup_attempted, fatal_alert>>

probing == <<url_cache, clock, lookup>>

pooling == <<taken, in_flight, head_answers>>

racing == <<tf_calls>>

reading == <<last_fails_call>>

further == <<scheduler, gate, fatal, probing, pooling, racing, reading>>

vars ==
    <<persistent, control, chain, processing, sink, counters, delivered_before, tracker_calls,
      timeouts, retrying, sorting, further>>

\* the ids of the deliveries in a list of send_telegram calls
IdsOf(deliveries) == {deliveries[k].id : k \in DOMAIN deliveries}

\* history.txt when the model starts: the id of a story delivered earlier
StartHistory == <<get_clean_id(UrlA)>>

NoCall ==
    [site |-> "none", status |-> "none", io_ok |-> TRUE, before |-> 0, returned |-> 0,
     raised |-> FALSE]

\* no call of get_consecutive_fails on its own yet
NoFailsCall == [site |-> "none", read_ok |-> TRUE, returned |-> 0]

\* the media URLs the reorderer and the probe are given on their own
SortUrls == {UrlA, UrlB}

\* a URL that is not in _url_cache; cached_timestamp 0 stands for None
NoEntry == [present |-> FALSE, cached_time |-> 0, cached_timestamp |-> 0]

\* _get_url_timestamp was not called yet
NoLookup == [url |-> <<>>, fresh |-> FALSE, probed |-> FALSE, timestamp |-> 0]

\* get_adaptive_timeout was not called yet
NoTimeout == [site_name |-> "none", base_timeout |-> 0, consecutive_fails |-> 0, value |-> 0]

\* the threads that call track_failure at the same time
Callers == {1, 2}

\* a caller that has not called track_failure yet
NoTfCall == [step |-> "idle", site |-> "None", status |-> "None", data |-> NoFailureFile, returned |-> 0]

Init ==
    /\ history = StartHistory
    /\ failure_file = NoFailureFile
    /\ pc = "idle"
    /\ attempt = 0
    /\ rb_attempt = 0
    /\ run_no = 0
    /\ seen_ids = <<>>
    /\ links_molly = <<>> /\ molly_status = "NOT_TESTED"
    /\ links_viewer = <<>> /\ storiesviewer_status = "NOT_TESTED"
    /\ links_insta = <<>> /\ insta_status = "NOT_TESTED"
    /\ links_iq = <<>> /\ iqsaved_status = "NOT_TESTED"
    /\ tutti_i_link = <<>>
    /\ storie_da_processare = <<>>
    /\ ids_to_add = <<>>
    /\ i = 0
    /\ sent = <<>>
    /\ critical_alerts = 0
    /\ calls = [s \in Sites |-> 0]
    /\ records = [s \in Sites |-> 0]
    /\ delivered_before = Range(history)
    /\ status_log = [s \in Sites |-> <<>>]
    /\ last_record = NoCall
    /\ adjusted_timeout = NoTimeout
    /\ prev_timeout = NoTimeout
    /\ rb_max_retries = run_max_retries
    /\ rb_state = "idle"
    /\ rb_calls = 0
    /\ rb_failures = <<>>
    /\ rb_sleeps = <<>>
    /\ last_exception = "None"
    /\ rb_result = "None"
    /\ rb_raised = "None"
    /\ error_log = <<>>
    /\ sort_input = <<>>
    /\ completed = <<>>
    /\ links_with_dates = <<>>
    /\ sorted_links = <<>>
    /\ consecutive_success = 0
    /\ sleep_time = 0
    /\ validate_input = <<>>
    /\ unique_links = <<>>
    /\ union_input = <<>>
    /\ union_links = <<>>
    /\ run_error = "None"
    /\ run_raised = "None"
    /\ cleanup_attempted = FALSE
    /\ fatal_alert = "none"
    /\ url_cache = [url \in SortUrls |-> NoEntry]
    /\ clock = 0
    /\ lookup = NoLookup
    /\ taken = 0
    /\ in_flight = {}
    /\ head_answers = <<>>
    /\ tf_calls = [t \in Callers |-> NoTfCall]
    /\ last_fails_call = NoFailsCall

(***************************************************************************)
(* run: start.                                                             *)
(***************************************************************************)
\* cleanup_old_logs removes failure_tracker.json when it was last written more
\* than 7 days ago (stale); then run reads history.txt
StartRun(stale) ==
    /\ pc = "idle"
    /\ run_no' = run_no + 1
    /\ failure_file' = IF stale THEN NoFailureFile ELSE failure_file
    /\ seen_ids' = history
    /\ ids_to_add' = <<>>
    /\ pc' = "molly"
    /\ consecutive_success' = 0
    /\ sleep_time' = 0
    /\ UNCHANGED <<history, attempt, rb_attempt, chain, tutti_i_link, storie_da_processare, i,
                   sink, counters, delivered_before, tracker_calls, timeouts, retrying, sorting,
                   gate, fatal, probing, pooling, racing, reading>>

(***************************************************************************)
(* run: the fallback chain.                                                *)
(***************************************************************************)
\* the order of the phases with a fault: run goes from phase 3 to the processing
NextPhase_without_iq(phase) ==
    CASE phase = "molly"  -> "viewer"
      [] phase = "viewer" -> "insta"
      [] OTHER            -> "processing"

NextPhase(phase) ==
    CASE phase = "molly"  -> "viewer"
      [] phase = "viewer" -> "insta"
      [] phase = "insta"  -> "iq"
      [] phase = "iq"     -> "processing"

\* where run is after a step of a call with a fault: run goes on to the next
\* phase while the call has not returned
next_pc_without_waiting(kind, phase) == NextPhase(phase)

\* where run is after a step of the call of its phase: the statement after the
\* call is reached when the call has returned
next_pc(kind, phase) == IF kind = "return" THEN NextPhase(phase) ELSE phase

\* the end of one call made in the phase of site: r is how the call went through
\* retry_with_backoff, io_ok whether track_failure could read and write its file
ChainStep(site, r, io_ok) ==
    /\ calls' = IF attempt = 0 THEN [calls EXCEPT ![site] = @ + 1] ELSE calls
    /\ records' = IF r.track THEN [records EXCEPT ![site] = @ + 1] ELSE records
    /\ failure_file' = IF r.track
                       THEN track_failure(failure_file, site, r.tracked, io_ok).file
                       ELSE failure_file
    /\ pc' = next_pc(r.kind, pc)
    /\ attempt' = IF r.kind = "again" THEN attempt + 1 ELSE 0
    /\ rb_attempt' = IF r.kind = "retry" THEN rb_attempt + 1
                     ELSE IF r.kind = "return" THEN 0 ELSE rb_attempt
    /\ IF r.kind = "return" /\ site = "Mollygram"
       THEN links_molly' = r.links /\ molly_status' = r.status
       ELSE UNCHANGED <<links_molly, molly_status>>
    /\ IF r.kind = "return" /\ site = "StoriesViewer"
       THEN links_viewer' = r.links /\ storiesviewer_status' = r.status
       ELSE UNCHANGED <<links_viewer, storiesviewer_status>>
    /\ IF r.kind = "return" /\ site = "Instasaved"
       THEN links_insta' = r.links /\ insta_status' = r.status
       ELSE UNCHANGED <<links_insta, insta_status>>
    /\ IF r.kind = "return" /\ site = "IQSaved"
       THEN links_iq' = r.links /\ iqsaved_status' = r.status
       ELSE UNCHANGED <<links_iq, iqsaved_status>>
    /\ UNCHANGED <<history, run_no, processing, sink, delivered_before, tracker_calls, timeouts, retrying, sorting, further>>

\* a call of a safe_check wrapper through retry_with_backoff, as run makes it
Call(site, r0, io_ok) == ChainStep(site, retry_with_backoff(safe_check(r0), rb_attempt), io_ok)

\* whether the health file can be read and written during a call of track_failure
IoOutcomes == BOOLEAN

\* an exception has left the wrapper of another site in this run: that wrapper
\* was called twice
EscapedElsewhere(site) == \E s \in Sites \ {site} : calls[s] > 1

\* phase 1: one pass of check_mollygram
MollyAttempt ==
    /\ pc = "molly"
    /\ \E out \in MollyOutcomes, proxy_urls \in MollyHrefs :
           /\ out = "ESCAPE" => ~EscapedElsewhere("Mollygram")
           /\ Call("Mollygram", check_mollygram(attempt, out, proxy_urls), TRUE)

\* phase 2: one pass of retry_storiesviewer; an exception that leaves the wrapper
\* is one raised on its entry
ViewerAttempt ==
    /\ pc = "viewer"
    /\ TryViewer(links_molly)
    /\ \E out \in ViewerOutcomes, raw \in ViewerHrefs, timeout \in BOOLEAN :
         \E k \in 0..Len(raw) :
           /\ out = "ESCAPE" => (attempt = 0 /\ ~EscapedElsewhere("StoriesViewer"))
           /\ Call("StoriesViewer", retry_storiesviewer(attempt, out, raw, timeout, k), TRUE)

ViewerSkip ==
    /\ pc = "viewer"
    /\ ~TryViewer(links_molly)
    /\ storiesviewer_status' = "SKIPPED_SUCCESS"
    /\ pc' = "insta"
    /\ UNCHANGED <<persistent, attempt, rb_attempt, run_no, links_molly, molly_status,
                   links_viewer, links_insta, insta_status, links_iq, iqsaved_status,
                   processing, sink, counters, delivered_before, tracker_calls, timeouts, retrying, sorting, further>>

\* phase 3: check_instasaved
InstaCall ==
    /\ pc = "insta"
    /\ TryInsta(links_molly, links_viewer)
    /\ \E out \in InstaOutcomes, hrefs \in InstaHrefs :
           /\ out = "ESCAPE" => ~EscapedElsewhere("Instasaved")
           /\ Call("Instasaved", check_instasaved(out, hrefs), TRUE)

InstaSkip ==
    /\ pc = "insta"
    /\ ~TryInsta(links_molly, links_viewer)
    /\ insta_status' = "SKIPPED_SUCCESS"
    /\ pc' = "iq"
    /\ UNCHANGED <<persistent, attempt, rb_attempt, run_no, links_molly, molly_status,
                   links_viewer, storiesviewer_status, links_insta, links_iq, iqsaved_status,
                   processing, sink, counters, delivered_before, tracker_calls, timeouts, retrying, sorting, further>>

\* phase 4: check_iqsaved
IqCall ==
    /\ pc = "iq"
    /\ TryIq(links_molly, links_viewer, links_insta)
    /\ \E out \in IqOutcomes, links \in IqHrefs :
           /\ out = "ESCAPE" => ~EscapedElsewhere("IQSaved")
           /\ Call("IQSaved", check_iqsaved(out, links), TRUE)

IqSkip ==
    /\ pc = "iq"
    /\ ~TryIq(links_molly, links_viewer, links_insta)
    /\ pc' = "processing"
    /\ UNCHANGED <<persistent, attempt, rb_attempt, run_no, chain, processing, sink,
                   counters, delivered_before, tracker_calls, timeouts, retrying, sorting, further>>

(***************************************************************************)
(* run: processing, sending, saving, health check.                         *)
(***************************************************************************)
\* the union of the engines' links after validate_links
valid_links_of_run ==
    validate_links(add_links_safe(add_links_safe(add_links_safe(add_links_safe(
        <<>>, links_molly), links_viewer), links_insta), links_iq))

\* the rest of the processing once the links are sorted: the selection of the
\* new stories
Processed(sorted) ==
    /\ tutti_i_link' = sorted
    /\ storie_da_processare' = new_stories(sorted, Range(seen_ids), <<>>)
    /\ pc' = IF storie_da_processare' = <<>> THEN "save" ELSE "telegram"
    /\ UNCHANGED <<persistent, attempt, rb_attempt, run_no, chain, seen_ids, ids_to_add, i,
                   sink, counters, delivered_before, tracker_calls, timeouts, retrying, sorting, further>>

\* the union of the engines' links, validate_links, the chronological sort with
\* ts the timestamps the probes return and order the order in which they
\* complete, and the selection of the new stories
Process ==
    /\ pc = "processing"
    /\ \E ts \in [1..Min({Len(valid_links_of_run), max_links_to_sort}) -> 1..Inf] :
         \E order \in CompletionOrders(Min({Len(valid_links_of_run), max_links_to_sort})) :
            Processed(sort_links_chronologically(valid_links_of_run, ts, order))

\* the flood guard, or one pass of the sending loop
SendStories(ok) ==
    /\ pc = "telegram"
    /\ LET num_nuove == Len(storie_da_processare)
           item == storie_da_processare[i + 1]
           url == media_url_of(item.url)
           after == pace(send_telegram(ok), i, num_nuove, consecutive_success)
       IN IF num_nuove > SOGLIA_ALLUVIONE
          THEN /\ ids_to_add' = [k \in 1..num_nuove |-> storie_da_processare[k].id]
               /\ pc' = "save"
               /\ UNCHANGED <<i, sent, scheduler>>
          ELSE IF i < num_nuove
               THEN /\ i' = i + 1
                    /\ pc' = IF i + 1 < num_nuove THEN pc ELSE "save"
                    /\ IF url = <<>>
                       THEN UNCHANGED <<sent, ids_to_add, scheduler>>
                       ELSE /\ sent' = deliveries_after(sent, item, url, ok)
                            /\ ids_to_add' = IF send_telegram(ok) = "raised" THEN ids_to_add
                                             ELSE Append(ids_to_add, item.id)
                            /\ consecutive_success' = after.consecutive_success
                            /\ sleep_time' = after.sleep_time
               ELSE /\ pc' = "save"
                    /\ UNCHANGED <<i, sent, ids_to_add, scheduler>>
    /\ UNCHANGED <<persistent, attempt, rb_attempt, run_no, chain, seen_ids, tutti_i_link,
                   storie_da_processare, critical_alerts, counters, delivered_before,
                   tracker_calls, timeouts, retrying, sorting, gate, fatal, probing, pooling, racing, reading>>

\* history.txt is rewritten when there are ids to add and check_disk_space()
SaveHistory(disk_ok) ==
    /\ pc = "save"
    /\ history' = IF ids_to_add # <<>> /\ disk_ok
                  THEN saved_history(seen_ids, ids_to_add) ELSE history
    /\ pc' = "health"
    /\ UNCHANGED <<failure_file, attempt, rb_attempt, run_no, chain, processing, sink,
                   counters, delivered_before, tracker_calls, timeouts, retrying, sorting, further>>

HealthCheck ==
    /\ pc = "health"
    /\ critical_alerts' =
           IF sends_critical_alert(molly_status, links_molly, storiesviewer_status,
                                   links_viewer, insta_status, links_insta,
                                   iqsaved_status, links_iq)
           THEN critical_alerts + 1 ELSE critical_alerts
    /\ pc' = "done"
    /\ UNCHANGED <<persistent, attempt, rb_attempt, run_no, chain, processing, sent,
                   counters, delivered_before, tracker_calls, timeouts, retrying, sorting, further>>

\* one execution of run, from the launch of the process to its end
Next ==
    \/ \E stale \in BOOLEAN : StartRun(stale)
    \/ MollyAttempt
    \/ ViewerAttempt
    \/ ViewerSkip
    \/ InstaCall
    \/ InstaSkip
    \/ IqCall
    \/ IqSkip
    \/ Process
    \/ \E ok \in BOOLEAN : SendStories(ok)
    \/ \E disk_ok \in BOOLEAN : SaveHistory(disk_ok)
    \/ HealthCheck

Spec == Init /\ [][Next]_vars

(***************************************************************************)
(* Successive executions of run on the same files, in the days on which    *)
(* Mollygram serves the stories: its first pass finds links and the other  *)
(* engines are skipped.                                                    *)
(***************************************************************************)
\* executions the model follows
MaxRuns == 2

\* the scheduler launches the process again: the variables of run start afresh,
\* history.txt and failure_tracker.json stay
Relaunch ==
    /\ pc = "done"
    /\ run_no < MaxRuns
    /\ pc' = "idle"
    /\ delivered_before' = delivered_before \cup IdsOf(sent)
    /\ seen_ids' = <<>>
    /\ links_molly' = <<>> /\ molly_status' = "NOT_TESTED"
    /\ links_viewer' = <<>> /\ storiesviewer_status' = "NOT_TESTED"
    /\ links_insta' = <<>> /\ insta_status' = "NOT_TESTED"
    /\ links_iq' = <<>> /\ iqsaved_status' = "NOT_TESTED"
    /\ tutti_i_link' = <<>>
    /\ storie_da_processare' = <<>>
    /\ ids_to_add' = <<>>
    /\ i' = 0
    /\ sent' = <<>>
    /\ critical_alerts' = 0
    /\ calls' = [s \in Sites |-> 0]
    /\ records' = [s \in Sites |-> 0]
    /\ UNCHANGED <<persistent, attempt, rb_attempt, run_no, tracker_calls, timeouts, retrying, sorting, further>>

\* phase 1 on such a day: the first pass of check_mollygram extracts links
MollyFinds ==
    /\ pc = "molly"
    /\ \E proxy_urls \in MollyHrefs :
           /\ MollyLinks(proxy_urls) # <<>>
           /\ Call("Mollygram", check_mollygram(0, "EXTRACT", proxy_urls), TRUE)

NextRuns ==
    \/ \E stale \in BOOLEAN : StartRun(stale)
    \/ MollyFinds
    \/ ViewerSkip
    \/ InstaSkip
    \/ IqSkip
    \/ Process
    \/ \E ok \in BOOLEAN : SendStories(ok)
    \/ \E disk_ok \in BOOLEAN : SaveHistory(disk_ok)
    \/ HealthCheck
    \/ Relaunch

SpecRuns == Init /\ [][NextRuns]_vars

(***************************************************************************)
(* An execution of run on a day on which Mollygram serves as many new      *)
(* stories as the flood threshold, or one more, or as many as history.txt  *)
(* can hold.                                                               *)
(***************************************************************************)
\* the media URL of story number n
Story(n) == <<"https:", "/", "/", "scontent.cdninstagram.com", "/", ToString(n)>>

\* the numbers of stories on the page
FloodSizes == {SOGLIA_ALLUVIONE, SOGLIA_ALLUVIONE + 1, MAX_HISTORY}

\* phase 1 on such a day: the first pass of check_mollygram extracts num links
MollyFlood(num) ==
    /\ pc = "molly"
    /\ Call("Mollygram",
            check_mollygram(0, "EXTRACT", [n \in 1..num |-> MollyProxy(Story(n))]), TRUE)

\* the processing on such a day: the probes all give the same answer and
\* complete in the order of the links
ProcessFlood ==
    /\ pc = "processing"
    /\ \E t \in 1..Inf :
         Processed(sort_links_chronologically(
             valid_links_of_run,
             [k \in 1..Min({Len(valid_links_of_run), max_links_to_sort}) |-> t],
             [k \in 1..Min({Len(valid_links_of_run), max_links_to_sort}) |-> k]))

NextFlood ==
    \/ \E stale \in BOOLEAN : StartRun(stale)
    \/ \E num \in FloodSizes : MollyFlood(num)
    \/ ViewerSkip
    \/ InstaSkip
    \/ IqSkip
    \/ ProcessFlood
    \/ SendStories(TRUE)
    \/ \E disk_ok \in BOOLEAN : SaveHistory(disk_ok)
    \/ HealthCheck

SpecFlood == Init /\ [][NextFlood]_vars

(***************************************************************************)
(* The failure tracker on its own: any sequence of track_failure calls.    *)
(***************************************************************************)
\* calls of track_failure the model follows
MaxRecords == 4

\* the sites and statuses of these calls
TrackedSites == {"Mollygram", "StoriesViewer"}

TrackedStatuses == {"SUCCESS", "NO_STORIES", "SERVER_UNAVAILABLE", "CRASH"}

\* the calls made so far
RecordsMade == Len(status_log["Mollygram"]) + Len(status_log["StoriesViewer"])

\* one call track_failure(site, status)
Record(site, status, io_ok) ==
    /\ RecordsMade < MaxRecords
    /\ failure_file' = track_failure(failure_file, site, status, io_ok).file
    /\ last_record' = [site |-> site, status |-> status, io_ok |-> io_ok,
                       before |-> get_consecutive_fails(failure_file, site),
                       returned |-> track_failure(failure_file, site, status, io_ok).returned,
                       raised |-> track_failure(failure_file, site, status, io_ok).raised]
    /\ status_log' = [status_log EXCEPT
                          ![site] = Append(@, [status |-> status, io_ok |-> io_ok])]
    /\ UNCHANGED <<history, control, chain, processing, sink, counters, delivered_before,
                   timeouts, retrying, sorting, further>>

NextTracker ==
    \E site \in TrackedSites, status \in TrackedStatuses, io_ok \in IoOutcomes :
        Record(site, status, io_ok)

SpecTracker == Init /\ [][NextTracker]_vars

(***************************************************************************)
(* The failure tracker and the housekeeping of the start of run, in any    *)
(* order: calls of track_failure, of get_consecutive_fails and of          *)
(* cleanup_old_logs, the file failing or not.                              *)
(***************************************************************************)
\* cleanup_old_logs(7): failure_tracker.json is removed when it was last written
\* more than days_to_keep days ago (stale).  Its third part prunes the entries
\* of data["failures"], which track_failure never fills, and writes the file
\* back only when it pruned one: the counters are written back as they were
CleanupOldLogs(stale) ==
    /\ failure_file' = IF stale THEN NoFailureFile ELSE failure_file
    /\ UNCHANGED <<history, control, chain, processing, sink, counters, delivered_before,
                   tracker_calls, timeouts, retrying, sorting, further>>

\* one call get_consecutive_fails(site); read_ok tells whether the file could
\* be opened and parsed
FailsCall(site, read_ok) ==
    /\ last_fails_call' =
           [site |-> site, read_ok |-> read_ok,
            returned |->
                get_consecutive_fails(IF read_ok THEN failure_file ELSE Unreadable, site)]
    /\ UNCHANGED <<persistent, control, chain, processing, sink, counters, delivered_before,
                   tracker_calls, timeouts, retrying, sorting, scheduler, gate, fatal, probing,
                   pooling, racing>>

\* the statuses of the calls of track_failure here: one that resets the
\* counter and one that counts
HousekeepingStatuses == {"SUCCESS", "CRASH"}

NextHousekeeping ==
    \/ \E site \in TrackedSites, status \in HousekeepingStatuses, io_ok \in IoOutcomes :
         Record(site, status, io_ok)
    \/ \E stale \in BOOLEAN : CleanupOldLogs(stale)
    \/ \E site \in TrackedSites, read_ok \in IoOutcomes : FailsCall(site, read_ok)

SpecHousekeeping == Init /\ [][NextHousekeeping]_vars

(***************************************************************************)
(* The adaptive timeout: calls of get_adaptive_timeout between failures    *)
(* recorded for a site.                                                    *)
(***************************************************************************)
\* consecutive failures the model follows
MaxFails == 8

\* the base timeouts of the calls: 25000 and 30000 are those of the engines
BaseTimeouts == {10000, 15000, 25000, 30000}

\* a failure is recorded for site
TimeoutFail(site) ==
    /\ get_consecutive_fails(failure_file, site) < MaxFails
    /\ failure_file' = track_failure(failure_file, site, "TIMEOUT", TRUE).file
    /\ UNCHANGED <<history, control, chain, processing, sink, counters, delivered_before,
                   tracker_calls, timeouts, retrying, sorting, further>>

\* one call get_adaptive_timeout(site_name, base_timeout)
AdaptiveTimeout(site_name, base_timeout) ==
    /\ adjusted_timeout' =
           [site_name |-> site_name, base_timeout |-> base_timeout,
            consecutive_fails |-> get_consecutive_fails(failure_file, site_name),
            value |-> get_adaptive_timeout(failure_file, site_name, base_timeout)]
    /\ prev_timeout' = adjusted_timeout
    /\ UNCHANGED <<persistent, control, chain, processing, sink, counters, delivered_before,
                   tracker_calls, retrying, sorting, further>>

NextTimeout ==
    \/ TimeoutFail("StoriesViewer")
    \/ \E base_timeout \in BaseTimeouts : AdaptiveTimeout("StoriesViewer", base_timeout)

SpecTimeout == Init /\ [][NextTimeout]_vars

(***************************************************************************)
(* retry_with_backoff on its own, for any max_retries and any func.        *)
(***************************************************************************)
\* the largest max_retries the model follows
MaxRetries == 3

\* the exceptions func raises: subclasses of Exception
Exceptions == {"TimeoutError", "ValueError", "RuntimeError"}

\* the cancellations that reach func while it runs: subclasses of BaseException
\* that are no Exception
Cancellations == {"KeyboardInterrupt", "SystemExit"}

\* the except clause with a fault: a bare except, which catches everything
caught_by_bare_except(e) == e \in Exceptions \cup Cancellations

\* the except clause of retry_with_backoff, `except Exception as e`, catches e
caught(e) == e \in Exceptions

\* the values func returns
FuncResults == {"links", "no links"}

\* retry_with_backoff(func, max_retries) is called
RetryCall(max_retries) ==
    /\ rb_state = "idle"
    /\ rb_max_retries' = max_retries
    /\ rb_state' = "running"
    /\ rb_attempt' = 0
    /\ UNCHANGED <<persistent, pc, attempt, run_no, chain, processing, sink, counters,
                   delivered_before, tracker_calls, timeouts, sorting, further, rb_calls, rb_failures,
                   rb_sleeps, last_exception, rb_result, rb_raised, error_log>>

\* one pass of its loop: func returns result, or raises e when e is an exception
\* or a cancellation; what the except clause does not catch leaves the function
RetryPass(e, result) ==
    /\ rb_state = "running"
    /\ rb_calls' = rb_calls + 1
    /\ rb_failures' = IF e = "None" \/ ~caught(e) THEN rb_failures ELSE Append(rb_failures, e)
    /\ last_exception' = IF e = "None" \/ ~caught(e) THEN last_exception ELSE e
    /\ LET pass == IF e # "None" /\ ~caught(e)
                   THEN [kind |-> "propagate", sleep |-> 0, raised |-> e]
                   ELSE retry_pass(rb_max_retries, rb_attempt, e, last_exception)
       IN /\ rb_state' = CASE pass.kind = "return"    -> "returned"
                           [] pass.kind = "raise"     -> "raised"
                           [] pass.kind = "propagate" -> "cancelled"
                           [] OTHER                   -> "running"
          /\ rb_result' = IF pass.kind = "return" THEN result ELSE rb_result
          /\ rb_raised' = pass.raised
          /\ error_log' = IF pass.kind = "raise" THEN Append(error_log, e) ELSE error_log
          /\ rb_sleeps' = IF pass.sleep > 0 THEN Append(rb_sleeps, pass.sleep) ELSE rb_sleeps
          /\ rb_attempt' = IF pass.kind = "next" THEN rb_attempt + 1 ELSE rb_attempt
    /\ UNCHANGED <<persistent, pc, attempt, run_no, chain, processing, sink, counters,
                   delivered_before, tracker_calls, timeouts, sorting, further, rb_max_retries>>

NextRetry ==
    \/ \E max_retries \in 0..MaxRetries : RetryCall(max_retries)
    \/ \E result \in FuncResults : RetryPass("None", result)
    \/ \E e \in Exceptions : RetryPass(e, "None")
    \/ \E e \in Cancellations : RetryPass(e, "None")

SpecRetry == Init /\ [][NextRetry]_vars

(***************************************************************************)
(* sort_links_chronologically on its own, for any list of links, any       *)
(* answers of the probes and any order of completion.                      *)
(***************************************************************************)
\* the longest list the model sorts
MaxSortLen == 3

\* the lists of links of a given length
LinkLists(n) == [1..n -> SortUrls]

\* one call sort_links_chronologically(links)
SortCall(links, ts, order) ==
    /\ sort_input = <<>> /\ sorted_links = <<>>
    /\ sort_input' = links
    /\ completed' = IF Len(links) <= 1 THEN <<>> ELSE probe_results(links, ts, order)
    /\ links_with_dates' = sort_by_key(completed')
    /\ sorted_links' = sort_links_chronologically(links, ts, order)
    /\ UNCHANGED <<persistent, control, chain, processing, sink, counters, delivered_before,
                   tracker_calls, timeouts, retrying, further>>

NextSort ==
    \E n \in 1..MaxSortLen :
      \E links \in LinkLists(n), ts \in [1..n -> 1..Inf], order \in CompletionOrders(n) :
        SortCall(links, ts, order)

SpecSort == Init /\ [][NextSort]_vars

(***************************************************************************)
(* Executions of run in which an exception escapes.                        *)
(***************************************************************************)
\* the exceptions that escape
RunErrors == {"TimeoutError", "ValueError", "OSError"}

\* the places of run inside its try statement
InsideTry == {"molly", "viewer", "insta", "iq", "processing", "telegram", "save", "health"}

\* an exception e is raised by the statements of run that precede its try
\* statement (backup of history.txt, removal of old backups, first log line):
\* no handler is there, run raises e
PrologueRaise(e) ==
    /\ pc = "idle"
    /\ run_no < MaxRuns
    /\ run_no' = run_no + 1
    /\ run_error' = e
    /\ run_raised' = e
    /\ pc' = "raised"
    /\ UNCHANGED <<persistent, attempt, rb_attempt, chain, processing, sink, counters,
                   delivered_before, tracker_calls, timeouts, retrying, sorting, scheduler,
                   gate, cleanup_attempted, fatal_alert, probing, pooling, racing, reading>>

\* an exception e is raised inside the try statement and reaches the except
\* clause of run: log_semplice, emergency_cleanup, send_telegram, raise.
\* log_ok tells whether log_semplice could append to log_telefono.txt (it
\* raises OSError otherwise), alert_ok whether the alert reached Telegram
RunExcept(e, log_ok, alert_ok) ==
    /\ pc \in InsideTry
    /\ run_error' = e
    /\ cleanup_attempted' = log_ok
    /\ fatal_alert' = IF ~log_ok THEN "none" ELSE IF alert_ok THEN "sent" ELSE "failed"
    /\ run_raised' = IF log_ok THEN e ELSE "OSError"
    /\ pc' = "raised"
    /\ UNCHANGED <<persistent, attempt, rb_attempt, run_no, chain, processing, sink, counters,
                   delivered_before, tracker_calls, timeouts, retrying, sorting, scheduler,
                   gate, probing, pooling, racing, reading>>

NextCrash ==
    \/ \E stale \in BOOLEAN : StartRun(stale)
    \/ MollyFinds
    \/ ViewerSkip
    \/ InstaSkip
    \/ IqSkip
    \/ Process
    \/ \E ok \in BOOLEAN : SendStories(ok)
    \/ \E disk_ok \in BOOLEAN : SaveHistory(disk_ok)
    \/ HealthCheck
    \/ Relaunch
    \/ \E e \in RunErrors : PrologueRaise(e)
    \/ \E e \in RunErrors, log_ok \in BOOLEAN, alert_ok \in BOOLEAN : RunExcept(e, log_ok, alert_ok)

SpecCrash == Init /\ [][NextCrash]_vars

(***************************************************************************)
(* validate_links and the union of run on their own.                       *)
(***************************************************************************)
MaxGateLen == 3

\* the raw links of the lists: direct media URLs, a page that is no media, and
\* the download links of IQSaved and Instasaved for them
GateUrls ==
    {UrlA, UrlB, UrlX, IqProxy(UrlA), IqProxy(UrlB), InstaProxy("aHR0cHM6Ly.B")}

\* one call validate_links(links)
ValidateCall(links) ==
    /\ validate_input = <<>> /\ union_input = <<>>
    /\ validate_input' = links
    /\ unique_links' = validate_links(links)
    /\ UNCHANGED <<persistent, control, chain, processing, sink, counters, delivered_before,
                   tracker_calls, timeouts, retrying, sorting, scheduler, union_input,
                   union_links, fatal, probing, pooling, racing, reading>>

\* the union of run on the raw links an engine returned:
\* all_links = [], add_links_safe(links)
UnionCall(links) ==
    /\ validate_input = <<>> /\ union_input = <<>>
    /\ union_input' = links
    /\ union_links' = add_links_safe(<<>>, links)
    /\ UNCHANGED <<persistent, control, chain, processing, sink, counters, delivered_before,
                   tracker_calls, timeouts, retrying, sorting, scheduler, validate_input,
                   unique_links, fatal, probing, pooling, racing, reading>>

NextLinks ==
    \/ \E n \in 1..MaxGateLen : \E links \in [1..n -> GateUrls] : ValidateCall(links)
    \/ \E n \in 1..MaxGateLen : \E links \in [1..n -> GateUrls] : UnionCall(links)

SpecLinks == Init /\ [][NextLinks]_vars

(***************************************************************************)
(* _get_url_timestamp and its cache on their own.                          *)
(***************************************************************************)
\* _cache_ttl, in seconds
cache_ttl == 3600

\* the clock moves in steps of half an hour, MaxTicks times
TickLen == cache_ttl \div 2

MaxTicks == 3

\* the test of _get_url_timestamp on the entry of the URL at current_time: the
\* entry is younger than _cache_ttl
fresh_entry(entry, current_time) ==
    entry.present /\ current_time - entry.cached_time < cache_ttl

\* ... and its cached_timestamp is not None: the cached value is returned
cache_hit(entry, current_time) ==
    fresh_entry(entry, current_time) /\ entry.cached_timestamp # 0

\* one call _get_url_timestamp(url, index): head is the timestamp the HEAD
\* request would give, 0 when it gives no date or raises
GetUrlTimestamp(url, head) ==
    /\ IF cache_hit(url_cache[url], clock)
       THEN /\ lookup' = [url |-> url, fresh |-> TRUE, probed |-> FALSE,
                          timestamp |-> url_cache[url].cached_timestamp]
            /\ UNCHANGED url_cache
       ELSE /\ lookup' = [url |-> url, fresh |-> fresh_entry(url_cache[url], clock),
                          probed |-> TRUE, timestamp |-> IF head = 0 THEN Inf ELSE head]
            /\ url_cache' = [url_cache EXCEPT ![url] =
                                [present |-> TRUE, cached_time |-> clock, cached_timestamp |-> head]]
    /\ UNCHANGED <<persistent, control, chain, processing, sink, counters, delivered_before,
                   tracker_calls, timeouts, retrying, sorting, scheduler, gate, fatal, clock, pooling, racing, reading>>

\* cleanup_cache: the entries as old as _cache_ttl are removed
CleanupCache ==
    /\ url_cache' = [url \in DOMAIN url_cache |->
                        IF url_cache[url].present /\ clock - url_cache[url].cached_time >= cache_ttl
                        THEN NoEntry ELSE url_cache[url]]
    /\ UNCHANGED <<persistent, control, chain, processing, sink, counters, delivered_before,
                   tracker_calls, timeouts, retrying, sorting, scheduler, gate, fatal, clock,
                   lookup, pooling, racing, reading>>

\* time passes
Tick ==
    /\ clock < MaxTicks * TickLen
    /\ clock' = clock + TickLen
    /\ UNCHANGED <<persistent, control, chain, processing, sink, counters, delivered_before,
                   tracker_calls, timeouts, retrying, sorting, scheduler, gate, fatal, url_cache,
                   lookup, pooling, racing, reading>>

NextProbe ==
    \/ \E url \in SortUrls, head \in 0..MaxTs : GetUrlTimestamp(url, head)
    \/ CleanupCache
    \/ Tick

SpecProbe == Init /\ [][NextProbe]_vars

(***************************************************************************)
(* The executor of sort_links_chronologically, probe by probe: the probes  *)
(* are queued in the order of the links, a free worker takes the next one, *)
(* and the tuples arrive in links_with_dates as the probes complete.       *)
(***************************************************************************)
\* ThreadPoolExecutor(max_workers=10)
max_workers == 10

\* the completions of a call that may overtake an older probe still running;
\* after them the probes complete in the order they were taken
MaxShuffled == 1

\* the lengths of the lists: below the cap, and two links over it
PoolLens == {MaxSortLen, max_links_to_sort + 2}

\* the answers of the probes: one for the odd and one for the even positions
PoolAnswers(n) ==
    {[k \in 1..n |-> IF k % 2 = 1 THEN odd ELSE even] : odd, even \in {1, Inf}}

\* links_to_sort = links[:max_links_to_sort]
links_to_sort == SubSeq(sort_input, 1, Min({Len(sort_input), max_links_to_sort}))

\* remaining_links = links[max_links_to_sort:]
remaining_links == SubSeq(sort_input, Len(links_to_sort) + 1, Len(sort_input))

\* the executor with a fault: a thread per probe
worker_free_always(running) == TRUE

\* a worker of the executor is free
worker_free(running) == Cardinality(running) < max_workers

\* the call is between its executor.submit and its return
InExecutor == sort_input # <<>> /\ sorted_links = <<>>

\* sort_links_chronologically(links) up to the end of the dict comprehension:
\* every probe of links_to_sort is queued
PoolSubmit(links, answers) ==
    /\ sort_input = <<>> /\ sorted_links = <<>>
    /\ Len(links) > 1
    /\ sort_input' = links
    /\ head_answers' = answers
    /\ taken' = 0 /\ in_flight' = {}
    /\ completed' = <<>>
    /\ UNCHANGED <<persistent, control, chain, processing, sink, counters, delivered_before,
                   tracker_calls, timeouts, retrying, links_with_dates, sorted_links,
                   scheduler, gate, fatal, probing, racing, reading>>

\* a free worker takes the next probe of the queue
WorkerStart ==
    /\ InExecutor
    /\ taken < Len(links_to_sort)
    /\ worker_free(in_flight)
    /\ taken' = taken + 1
    /\ in_flight' = in_flight \cup {taken + 1}
    /\ UNCHANGED <<persistent, control, chain, processing, sink, counters, delivered_before,
                   tracker_calls, timeouts, retrying, sorting, scheduler, gate, fatal, probing,
                   head_answers, racing, reading>>

\* the probe of index k completes and as_completed hands its tuple over
ProbeDone(k) ==
    /\ InExecutor
    /\ k \in in_flight
    /\ k = Min(in_flight) \/ Len(completed) < MaxShuffled
    /\ in_flight' = in_flight \ {k}
    /\ completed' = Append(completed, <<links_to_sort[k], head_answers[k], k>>)
    /\ UNCHANGED <<persistent, control, chain, processing, sink, counters, delivered_before,
                   tracker_calls, timeouts, retrying, sort_input, links_with_dates, sorted_links,
                   scheduler, gate, fatal, probing, taken, head_answers, racing, reading>>

\* the with block is left when every probe is done: the sort, and the return
PoolReturn ==
    /\ InExecutor
    /\ Len(completed) = Len(links_to_sort)
    /\ links_with_dates' = sort_by_key(completed)
    /\ sorted_links' = [k \in 1..Len(links_to_sort) |-> links_with_dates'[k][1]] \o remaining_links
    /\ UNCHANGED <<persistent, control, chain, processing, sink, counters, delivered_before,
                   tracker_calls, timeouts, retrying, sort_input, completed,
                   scheduler, gate, fatal, probing, pooling, racing, reading>>

NextPool ==
    \/ \E n \in PoolLens : \E answers \in PoolAnswers(Min({n, max_links_to_sort})) :
         PoolSubmit([k \in 1..n |-> Story(k)], answers)
    \/ WorkerStart
    \/ \E k \in in_flight : ProbeDone(k)
    \/ PoolReturn

SpecPool == Init /\ [][NextPool]_vars

(***************************************************************************)
(* Two threads that call track_failure at the same time, for two different *)
(* sites.  The function takes no lock: a call reads failure_tracker.json,  *)
(* changes what it read and writes the whole file back.                    *)
(***************************************************************************)
\* the other caller
other(t) == CHOOSE u \in Callers : u # t

\* track_failure(site, status) up to the end of the read (lines 231-240): data
\* is the content of failure_tracker.json at this moment
TfRead(t, site, status) ==
    /\ tf_calls[t].step = "idle"
    /\ tf_calls[other(t)].site # site
    /\ tf_calls' = [tf_calls EXCEPT ![t] =
           [step |-> "read", site |-> site, status |-> status, data |-> failure_file,
            returned |-> 0]]
    /\ UNCHANGED <<persistent, control, chain, processing, sink, counters, delivered_before,
                   tracker_calls, timeouts, retrying, sorting, scheduler, gate, fatal, probing,
                   pooling, reading>>

\* the rest of the call (lines 242-261): the counters of data are changed and
\* data is written over failure_tracker.json
TfWrite(t) ==
    /\ tf_calls[t].step = "read"
    /\ failure_file' =
           track_failure(tf_calls[t].data, tf_calls[t].site, tf_calls[t].status, TRUE).file
    /\ tf_calls' = [tf_calls EXCEPT ![t] =
           [@ EXCEPT !.step = "done",
                     !.returned = track_failure(tf_calls[t].data, tf_calls[t].site,
                                                tf_calls[t].status, TRUE).returned]]
    /\ UNCHANGED <<history, control, chain, processing, sink, counters, delivered_before,
                   tracker_calls, timeouts, retrying, sorting, scheduler, gate, fatal, probing,
                   pooling, reading>>

NextRace ==
    \/ \E t \in Callers, site \in TrackedSites, status \in TrackedStatuses : TfRead(t, site, status)
    \/ \E t \in Callers : TfWrite(t)

SpecRace == Init /\ [][NextRace]_vars

(***************************************************************************)
(* Properties.                                                             *)
(***************************************************************************)
\* the fallback chain of the run is over
ChainOver == pc \in {"processing", "telegram", "save", "health", "done"}

\* no engine returned a link in this run
NoLinksAtAll ==
    links_molly = <<>> /\ links_viewer = <<>> /\ links_insta = <<>> /\ links_iq = <<>>

\* the final statuses of the four engines
FinalStatuses == {molly_status, storiesviewer_status, insta_status, iqsaved_status}

\* the ids of the links the run holds after validation and sort
OfferedIds == {get_clean_id(tutti_i_link[k]) : k \in DOMAIN tutti_i_link}

\* the deliveries of the run have pairwise distinct ids
DistinctDeliveries == \A j, k \in DOMAIN sent : j # k => sent[j].id # sent[k].id

\* C1, as stated: over any sequence of runs no clean id is delivered more than
\* once: a run delivers no id twice and no id that an earlier run delivered.
C1_DeliveredOnceOverAllRuns ==
    /\ DistinctDeliveries
    /\ \A k \in DOMAIN sent : sent[k].id \notin delivered_before

\* C2: in any run, no artifact whose clean id is in the history read at the
\* start of the run is delivered.
C2_LedgerIdsNotDelivered == \A k \in DOMAIN sent : sent[k].id \notin Range(seen_ids)

\* a finished run that was offered a story of its history and a new one, and
\* delivered the new one only
C2_Witness ==
    /\ pc = "done"
    /\ OfferedIds \cap Range(seen_ids) # {}
    /\ sent # <<>>
    /\ IdsOf(sent) = OfferedIds \ Range(seen_ids)

\* C3: an engine is attempted in a run only if every engine of higher priority
\* returned zero links.
C3_AttemptedOnlyAfterEmptyHigher ==
    /\ calls["StoriesViewer"] > 0 => links_molly = <<>>
    /\ calls["Instasaved"] > 0 => (links_molly = <<>> /\ links_viewer = <<>>)
    /\ calls["IQSaved"] > 0 =>
           (links_molly = <<>> /\ links_viewer = <<>> /\ links_insta = <<>>)

\* Mollygram returned nothing, StoriesViewer returned links, and the run ended
\* without a call of Instasaved or IQSaved
C3_Witness ==
    /\ pc = "done"
    /\ links_molly = <<>> /\ calls["Mollygram"] > 0
    /\ links_viewer # <<>> /\ calls["StoriesViewer"] > 0
    /\ calls["Instasaved"] = 0 /\ calls["IQSaved"] = 0

\* C4, as stated: the chain stops only on an engine that yields a usable link:
\* when an engine is skipped, an engine of higher priority returned at least one
\* link that passes validate_links.
C4_SkippedOnlyAfterUsableLink ==
    ChainOver =>
        /\ calls["StoriesViewer"] = 0 => validate_links(links_molly) # <<>>
        /\ calls["Instasaved"] = 0 =>
               (validate_links(links_molly) # <<>> \/ validate_links(links_viewer) # <<>>)
        /\ calls["IQSaved"] = 0 =>
               \/ validate_links(links_molly) # <<>>
               \/ validate_links(links_viewer) # <<>>
               \/ validate_links(links_insta) # <<>>

\* C5: the failure of an engine never stops the chain: when the chain is over,
\* every engine whose higher-priority engines all returned zero links has been
\* attempted, whatever the statuses of those engines.
C5_FailureDoesNotStopChain ==
    ChainOver =>
        /\ calls["Mollygram"] > 0
        /\ links_molly = <<>> => calls["StoriesViewer"] > 0
        /\ (links_molly = <<>> /\ links_viewer = <<>>) => calls["Instasaved"] > 0
        /\ (links_molly = <<>> /\ links_viewer = <<>> /\ links_insta = <<>>) =>
               calls["IQSaved"] > 0

\* a run that went through a crash of Mollygram, the exhausted retries of
\* StoriesViewer and a crash of Instasaved, called IQSaved and reached its end
C5_Witness ==
    /\ pc = "done"
    /\ molly_status \in {"FATAL_ERROR", "CRASH"}
    /\ storiesviewer_status = "ALL_RETRIES_FAILED"
    /\ insta_status = "CRASH"
    /\ calls["IQSaved"] > 0

\* the statuses C6 calls benign
BenignStatuses == {"NO_STORIES", "NOT_TESTED", "SKIPPED_SUCCESS", "SERVER_UNAVAILABLE"}

NoContentStatuses == BenignStatuses \cup {"NO_LINKS"}

\* C7, as stated: if no engine produced a link and every final status says no
\* results, upstream unavailable, not tried or skipped, no critical alert is
\* sent.
C7_BenignEmptyRunDoesNotAlert ==
    (pc = "done" /\ NoLinksAtAll /\ FinalStatuses \subseteq NoContentStatuses) =>
        critical_alerts = 0

\* C8, as stated: in a run where at least one engine returned at least one link,
\* no critical alert is sent.
C8_NoAlertWhenLinksReturned == (pc = "done" /\ ~NoLinksAtAll) => critical_alerts = 0

\* the statuses[k] of the calls logged for site
StatusesOf(site) == [k \in 1..Len(status_log[site]) |-> status_log[site][k].status]

\* the statuses of the logged calls for site that could write the health file
PersistedStatusesOf(site) ==
    LET persisted == SelectSeq(status_log[site], LAMBDA c : c.io_ok)
    IN [k \in 1..Len(persisted) |-> persisted[k].status]

\* the outcomes C9 calls benign
BenignOutcomes == {"SUCCESS", "NO_STORIES", "SERVER_UNAVAILABLE"}

\* the number of non-benign statuses at the end of log, after the last benign one
RECURSIVE FailsSinceBenign(_)
FailsSinceBenign(log) ==
    IF log = <<>> \/ log[Len(log)] \in BenignOutcomes THEN 0
    ELSE 1 + FailsSinceBenign(SubSeq(log, 1, Len(log) - 1))

C10_OneRecordPerInvocation == ChainOver => \A s \in Sites : records[s] = calls[s]

\* C11, as stated: the total_runs counter of the health file grows by exactly 1
\* in a run, whatever the engines attempted: at the end of the first run on a
\* new health file it is 1.
C11_TotalRunsGrowsByOnePerRun == pc = "done" => failure_file.total_runs = run_no

\* the timeout the rule of C12 gives for a base and a failure count
TimeoutRule(base, failures) ==
    IF failures >= 3
    THEN (IF base + failures * 5000 <= 60000 THEN base + failures * 5000 ELSE 60000)
    ELSE IF failures = 0
         THEN (IF base - 5000 >= 15000 THEN base - 5000 ELSE 15000)
         ELSE base

\* C12: the adaptive timeout is min(60000, base + failures*5000) from 3
\* consecutive failures on, max(15000, base - 5000) at 0 failures, and the base
\* at 1 or 2 failures.
C12_TimeoutFollowsRule ==
    adjusted_timeout # NoTimeout =>
        adjusted_timeout.value =
            TimeoutRule(adjusted_timeout.base_timeout, adjusted_timeout.consecutive_fails)

\* a call at 1 failure gave the base, and the next call, at 7 failures, the cap
C12_Witness ==
    /\ prev_timeout.consecutive_fails = 1 /\ prev_timeout.base_timeout = 25000
    /\ prev_timeout.value = 25000
    /\ adjusted_timeout.consecutive_fails = 7 /\ adjusted_timeout.base_timeout = 30000
    /\ adjusted_timeout.value = 60000

\* C13, as stated: for every base timeout the adaptive timeout at 0 consecutive
\* failures is strictly less than the base.
C13_HealthyTimeoutBelowBase ==
    (adjusted_timeout # NoTimeout /\ adjusted_timeout.consecutive_fails = 0) =>
        adjusted_timeout.value < adjusted_timeout.base_timeout

\* C13, amended: at 0 consecutive failures the adaptive timeout is strictly less
\* than the base for every base above 15000, and is 15000, not less than the
\* base, for every base of 15000 or less.
C13_HealthyTimeoutBelowBaseAboveFloor ==
    (adjusted_timeout # NoTimeout /\ adjusted_timeout.consecutive_fails = 0) =>
        /\ adjusted_timeout.base_timeout > 15000 =>
               adjusted_timeout.value < adjusted_timeout.base_timeout
        /\ adjusted_timeout.base_timeout <= 15000 => adjusted_timeout.value = 15000

\* two calls at 0 failures: base 25000 gave 20000, base 10000 gave 15000
C13_Witness ==
    /\ prev_timeout.consecutive_fails = 0 /\ prev_timeout.base_timeout = 25000
    /\ prev_timeout.value = 20000
    /\ adjusted_timeout.consecutive_fails = 0 /\ adjusted_timeout.base_timeout = 10000
    /\ adjusted_timeout.value = 15000

\* C14: for a fixed base, the adaptive timeout does not decrease when the
\* consecutive failures grow, from 3 failures on.
C14_TimeoutGrowsWithFailures ==
    (/\ prev_timeout # NoTimeout
     /\ prev_timeout.site_name = adjusted_timeout.site_name
     /\ prev_timeout.base_timeout = adjusted_timeout.base_timeout
     /\ prev_timeout.consecutive_fails >= 3
     /\ prev_timeout.consecutive_fails <= adjusted_timeout.consecutive_fails) =>
        prev_timeout.value <= adjusted_timeout.value

\* two calls with base 25000: 40000 at 3 failures, then the cap 60000 at 8
C14_Witness ==
    /\ prev_timeout.base_timeout = 25000 /\ prev_timeout.consecutive_fails = 3
    /\ prev_timeout.value = 40000
    /\ adjusted_timeout.base_timeout = 25000 /\ adjusted_timeout.consecutive_fails = 8
    /\ adjusted_timeout.value = 60000

\* the waits of the claim: 2^k + 1 seconds after failed attempt k = 0, 1, 2, ...
SleepSchedule == <<2, 3, 5, 9, 17, 33>>

\* C15: retry_with_backoff with max_retries = N calls func at most N+1 times,
\* sleeps 2^k + 1 seconds after failed attempt k before attempt k+1, and does
\* not sleep after the last failed attempt.
C15_AttemptsAndWaits ==
    /\ rb_calls <= rb_max_retries + 1
    /\ rb_sleeps = SubSeq(SleepSchedule, 1, Len(rb_sleeps))
    /\ Len(rb_sleeps) = Len(rb_failures) - (IF rb_state = "raised" THEN 1 ELSE 0)

\* max_retries = 3 and four failures: four calls, the waits 2, 3, 5 and none
\* after the fourth failure
C15_Witness ==
    /\ rb_state = "raised" /\ rb_max_retries = 3
    /\ rb_calls = 4 /\ Len(rb_failures) = 4
    /\ rb_sleeps = <<2, 3, 5>>

Resolved(x) == x[2] # Inf

\* C18, as stated: among the probed links, every item with a resolved
\* timestamp comes before every item whose timestamp is unknown.
C18_UnknownTimestampsLast ==
    \A p, q \in DOMAIN links_with_dates :
        (Resolved(links_with_dates[p]) /\ ~Resolved(links_with_dates[q])) => p < q

\* C19: the items whose probe failed keep their input order, relative to each
\* other, in whatever order the probes complete.
C19_UnknownsKeepInputOrder ==
    \A p, q \in DOMAIN links_with_dates :
        (/\ ~Resolved(links_with_dates[p]) /\ ~Resolved(links_with_dates[q])
         /\ links_with_dates[p][3] < links_with_dates[q][3]) => p < q

\* three probes that all failed and completed in the reverse of the input
\* order: the links come out in the input order
C19_Witness ==
    /\ Len(sort_input) = 3 /\ sort_input[1] # sort_input[2]
    /\ \A k \in 1..3 : ~Resolved(completed[k]) /\ completed[k][3] = 4 - k
    /\ sorted_links = sort_input

\* how many times link u occurs in list l
Occurrences(l, u) == Cardinality({k \in DOMAIN l : l[k] = u})

\* C20: the list returned is a permutation of the input, and in it the probed
\* items with a resolved timestamp are in descending order of timestamp, items
\* with equal timestamps in their input order.
C20_PermutationNewestFirst ==
    /\ Len(sorted_links) = Len(sort_input)
    /\ \A u \in SortUrls : Occurrences(sorted_links, u) = Occurrences(sort_input, u)
    /\ Len(sort_input) > 1 =>
           /\ Len(links_with_dates) = Len(sort_input)
           /\ \A k \in DOMAIN links_with_dates :
                  /\ sorted_links[k] = links_with_dates[k][1]
                  /\ sort_input[links_with_dates[k][3]] = links_with_dates[k][1]
           /\ \A p, q \in DOMAIN links_with_dates :
                  (p < q /\ Resolved(links_with_dates[p]) /\ Resolved(links_with_dates[q])) =>
                      \/ links_with_dates[p][2] > links_with_dates[q][2]
                      \/ /\ links_with_dates[p][2] = links_with_dates[q][2]
                         /\ links_with_dates[p][3] < links_with_dates[q][3]

\* a.jpg with timestamp 1, then b.mp4 and a.jpg again with timestamp 2, the last
\* probe completing first: b.mp4 and the second a.jpg come out before the first
C20_Witness ==
    /\ sort_input = <<UrlA, UrlB, UrlA>>
    /\ completed = <<<<UrlA, 2, 3>>, <<UrlA, 1, 1>>, <<UrlB, 2, 2>>>>
    /\ sorted_links = <<UrlB, UrlA, UrlA>>
    /\ links_with_dates = <<<<UrlB, 2, 2>>, <<UrlA, 2, 3>>, <<UrlA, 1, 1>>>>

\* C17, as stated: when a run has more new stories than the flood threshold, it
\* sends none of them and the id of every one of them is in the history file
\* at the end of the run.
C17_FloodSendsNothingAndSavesAllIds ==
    (pc = "done" /\ Len(storie_da_processare) > SOGLIA_ALLUVIONE) =>
        /\ sent = <<>>
        /\ \A k \in DOMAIN storie_da_processare : storie_da_processare[k].id \in Range(history)

\* C21: validate_links keeps each accepted link once, at the place of its first
\* accepted occurrence: its output has no two equal elements, holds exactly the
\* links accepted from the input, and lists them in the order in which they
\* first occur in the input.
C21_FirstOccurrencesInOrder ==
    LET conv == [k \in DOMAIN validate_input |-> ValidateOne(validate_input[k])]
        first(l) == Min({k \in DOMAIN conv : conv[k] = l})
    IN /\ \A p, q \in DOMAIN unique_links : p # q => unique_links[p] # unique_links[q]
       /\ Range(unique_links) = {conv[k] : k \in DOMAIN conv} \ {<<>>}
       /\ \A p, q \in DOMAIN unique_links :
              p < q => first(unique_links[p]) < first(unique_links[q])

\* the IQSaved link of a.jpg, then b.mp4, then a.jpg itself: a.jpg is kept once,
\* before b.mp4
C21_Witness ==
    /\ validate_input = <<IqProxy(UrlA), UrlB, UrlA>>
    /\ unique_links = <<UrlA, UrlB>>

\* C23, as stated: two raw links that validate_links turns into the same media
\* URL have the same get_clean_id, so that the union of run keeps one of them.
C23_SameArtifactSameCleanId ==
    \A j, k \in DOMAIN union_input :
        (ValidateOne(union_input[j]) # <<>>
         /\ ValidateOne(union_input[j]) = ValidateOne(union_input[k]))
        => get_clean_id(union_input[j]) = get_clean_id(union_input[k])

\* the sending phase of the run has begun
Sending == pc \in {"telegram", "save", "health", "done"}

\* C22, as stated: every media URL handed to send_telegram in a run is an
\* element of what validate_links returned in that run.
C22_DeliveredUrlsPassedValidation ==
    Sending => \A k \in DOMAIN sent : sent[k].url \in Range(valid_links_of_run)

\* C25: in a run below the flood threshold an id is put into ids_to_add, and
\* from there into history.txt, only when send_telegram was called for its
\* story: every id added in the run is the id of a call made in the run.
C25_LedgerOnlyAfterDelivery ==
    (Sending /\ Len(storie_da_processare) <= SOGLIA_ALLUVIONE) =>
        /\ Range(ids_to_add) \subseteq IdsOf(sent)
        /\ Range(history) \subseteq Range(seen_ids) \cup IdsOf(sent)

\* the run is over, it delivered b.mp4 and wrote its id into history.txt
C25_Witness ==
    /\ pc = "done"
    /\ get_clean_id(UrlB) \in IdsOf(sent)
    /\ get_clean_id(UrlB) \in Range(history) \ Range(seen_ids)

\* C29, as stated: after a send_telegram call whose request failed, the sending
\* loop has consecutive_success = 0 and, when more stories follow, its sleep is
\* max_delay.
C29_ErrorResetsAndWaitsLonger ==
    (Sending /\ sent # <<>> /\ sent[Len(sent)].error) =>
        /\ consecutive_success = 0
        /\ i < Len(storie_da_processare) => sleep_time = max_delay

\* C24, as stated: when an exception escapes run, emergency_cleanup was called
\* and the alert was handed to send_telegram (whether or not it got through)
\* before run raises, and the exception run raises is the one that escaped.
C24_CleanupAlertThenSameException ==
    pc = "raised" =>
        /\ cleanup_attempted
        /\ fatal_alert # "none"
        /\ run_raised = run_error

\* C26: after run has rewritten history.txt the file holds at most MAX_HISTORY
\* ids, and they are the last ones of the ids read at the start followed by the
\* ids added in the run, in that order: only the oldest ids are gone.
C26_LedgerKeepsNewestIds ==
    (pc \in {"health", "done"} /\ history # seen_ids) =>
        LET updated_history == seen_ids \o ids_to_add
            n == Len(updated_history)
        IN /\ Len(history) = Min({n, MAX_HISTORY})
           /\ history = SubSeq(updated_history, n - Len(history) + 1, n)

\* a run that adds MAX_HISTORY ids to a history of one id: the old id is gone
C26_Witness ==
    /\ pc = "done" /\ history # seen_ids
    /\ Len(seen_ids \o ids_to_add) > MAX_HISTORY
    /\ Len(history) = MAX_HISTORY
    /\ history = ids_to_add

\* the statuses of the outcomes that are worth a new attempt
TransientStatuses == {"TIMEOUT", "HTTP_ERROR", "INPUT_ERROR"}

\* C27, as stated: when the status run keeps for an engine is TIMEOUT,
\* HTTP_ERROR or INPUT_ERROR, retry_with_backoff has called the wrapper of that
\* engine a second time (max_retries = 1) before run went on.
C27_TransientOutcomeIsRetried ==
    ChainOver =>
        /\ molly_status \in TransientStatuses => calls["Mollygram"] = run_max_retries + 1
        /\ storiesviewer_status \in TransientStatuses => calls["StoriesViewer"] = run_max_retries + 1
        /\ insta_status \in TransientStatuses => calls["Instasaved"] = run_max_retries + 1
        /\ iqsaved_status \in TransientStatuses => calls["IQSaved"] = run_max_retries + 1

\* C28: retry_with_backoff does not catch a cancellation: when func is
\* interrupted by one, the function raises it at once, without sleep, without
\* log entry and without another call of func.
C28_CancellationPropagates ==
    /\ \A k \in DOMAIN rb_failures : rb_failures[k] \notin Cancellations
    /\ rb_raised \in Cancellations => rb_state = "cancelled"
    /\ rb_state = "cancelled" =>
           /\ rb_raised \in Cancellations
           /\ rb_calls = Len(rb_failures) + 1
           /\ Len(rb_sleeps) = Len(rb_failures)
           /\ error_log = <<>> /\ rb_result = "None"

\* max_retries = 3, a TimeoutError, then a KeyboardInterrupt in the second call:
\* one sleep, two calls, the KeyboardInterrupt is raised
C28_Witness ==
    /\ rb_state = "cancelled" /\ rb_max_retries = 3
    /\ rb_failures = <<"TimeoutError">> /\ rb_sleeps = <<2>>
    /\ rb_calls = 2 /\ rb_raised = "KeyboardInterrupt"

\* C30, as stated: a call of _get_url_timestamp for a URL whose result, a
\* timestamp or "unknown", was cached less than _cache_ttl ago makes no HEAD
\* request.
C30_FreshEntryIsNotProbedAgain == lookup.fresh => ~lookup.probed

\* the timestamp that the probe of each input position gave, read back from
\* the tuples the probes returned
probe_timestamps ==
    [pos \in 1..Len(completed) |->
        completed[CHOOSE k \in DOMAIN completed : completed[k][3] = pos][2]]

\* C39: the list returned depends on the input list and on what the probes
\* answered only: with the same answers, every order of completion of the
\* probes gives the list that was returned.
C39_SameOutputForEveryCompletionOrder ==
    Len(sort_input) > 1 =>
        \A order \in CompletionOrders(Len(sort_input)) :
            sort_links_chronologically(sort_input, probe_timestamps, order) = sorted_links

\* three probes with the same resolved timestamp that completed in the reverse
\* of the input order: the links come out in the input order
C39_Witness ==
    /\ Len(sort_input) = 3 /\ sort_input[1] # sort_input[2]
    /\ \A k \in 1..3 : completed[k][2] = 1 /\ completed[k][3] = 4 - k
    /\ sorted_links = sort_input

\* C31: during a reorder at most 10 probes are in flight at once, only the
\* first 100 links of the input are probed, and the list returned is the probed
\* links in sorted order followed by the links beyond the first 100, unprobed
\* and in their input order.
C31_TenProbesAtOnceFirstHundredOnly ==
    /\ Cardinality(in_flight) <= 10
    /\ \A k \in in_flight : k <= 100
    /\ \A j \in DOMAIN completed : completed[j][3] <= 100
    /\ sorted_links # <<>> =>
           /\ Len(sorted_links) = Len(sort_input)
           /\ \A k \in DOMAIN sorted_links :
                  IF k <= 100
                  THEN /\ sorted_links[k] = links_with_dates[k][1]
                       /\ k > 1 => ~key_less(links_with_dates[k], links_with_dates[k - 1])
                  ELSE sorted_links[k] = sort_input[k]

\* a list of 102 links whose odd positions have a date and whose even ones have
\* none: the tenth probe completed first, so ten probes were running at once;
\* the list returned starts with the second link and ends with the last two
\* links of the input
C31_Witness ==
    /\ Len(sort_input) = 102 /\ Len(sorted_links) = 102
    /\ completed[1][3] = 10
    /\ head_answers[1] = 1 /\ head_answers[2] = Inf
    /\ sorted_links[1] = sort_input[2]
    /\ sorted_links[101] = sort_input[101] /\ sorted_links[102] = sort_input[102]

\* the counter of the site after one call with the status, from a file in
\* which the site has no failure
after_one_call(status) == IF status \in ResetStatuses THEN 0 ELSE 1

\* C32, as stated: when two concurrent calls of track_failure for different
\* sites have both returned, the counter of each site is the one its own call
\* gives and total_runs has grown by 2, in every interleaving.
C32_BothConcurrentRecordsTakeEffect ==
    (\A t \in Callers : tf_calls[t].step = "done") =>
        /\ \A t \in Callers :
               failure_file.consecutive_fails[tf_calls[t].site] = after_one_call(tf_calls[t].status)
        /\ failure_file.total_runs = 2

\* C33, as stated: the housekeeping changes no site's count of consecutive
\* failures, however long ago failure_tracker.json was last written.  (A step
\* that leaves status_log as it is is a call of cleanup_old_logs: every call of
\* track_failure adds to it.)
C33_HousekeepingKeepsCounters ==
    [][(status_log' = status_log) =>
           (failure_file'.consecutive_fails = failure_file.consecutive_fails)]_vars

\* C34: an error of failure_tracker.json inside track_failure or inside
\* get_consecutive_fails does not leave the call: the call returns 0.
C34_FileErrorsAreSwallowed ==
    /\ (last_record # NoCall /\ ~last_record.io_ok) =>
           (~last_record.raised /\ last_record.returned = 0)
    /\ ~last_fails_call.read_ok => last_fails_call.returned = 0

\* after two failures of StoriesViewer were written, a third call cannot use
\* the file and a call of get_consecutive_fails cannot read it: both return 0
\* and the file still has the counter at 2
C34_Witness ==
    /\ last_record.site = "StoriesViewer" /\ last_record.status = "CRASH"
    /\ ~last_record.io_ok /\ last_record.before = 2 /\ last_record.returned = 0
    /\ last_fails_call.site = "StoriesViewer" /\ ~last_fails_call.read_ok
    /\ last_fails_call.returned = 0
    /\ failure_file.consecutive_fails["StoriesViewer"] = 2

\* the positions of the raw links that are the first of their clean id
FirstOfCleanId ==
    {p \in DOMAIN union_input :
        /\ get_clean_id(union_input[p]) # <<>>
        /\ \A q \in DOMAIN union_input : q < p => get_clean_id(union_input[q]) # get_clean_id(union_input[p])}

\* C35: the union keeps one link per clean id, the first one met in the order
\* of the sources and then of each source's list, at the place where it was
\* met; a later link with the same clean id does not replace it.
C35_UnionKeepsFirstOfEachCleanId ==
    union_links = at_positions(union_input, FirstOfCleanId)

\* two IQSaved links, whose clean id is img2.php for both, around b.mp4: the
\* first IQSaved link is kept and the second does not replace it
C35_Witness ==
    /\ union_input = <<IqProxy(UrlA), UrlB, IqProxy(UrlB)>>
    /\ union_links = <<IqProxy(UrlA), UrlB>>

\* C37, as stated: the union drops no link whose artifact differs from the
\* artifact of every link it keeps: every media URL that validate_links finds
\* in the raw links is the media URL of a link of the union.
C37_UnionKeepsEveryArtifact ==
    \A p \in DOMAIN union_input :
        ValidateOne(union_input[p]) # <<>> =>
            \E k \in DOMAIN union_links : ValidateOne(union_links[k]) = ValidateOne(union_input[p])

\* the lists of links the engines returned in the run, in the order of the union
links_of_engines == <<links_molly, links_viewer, links_insta, links_iq>>

\* C38: in a run at most one engine has a non-empty list of links: once an
\* engine returned a link, the lists of the engines after it are empty, and the
\* links of the union all come from one engine.
C38_OneEngineContributes ==
    \A j, k \in DOMAIN links_of_engines :
        (j < k /\ links_of_engines[j] # <<>>) => links_of_engines[k] = <<>>

\* a finished run in which Mollygram and StoriesViewer returned nothing and
\* Instasaved returned links: IQSaved was not called and its list is empty
C38_Witness ==
    /\ pc = "done"
    /\ links_molly = <<>> /\ links_viewer = <<>> /\ links_insta # <<>> /\ links_iq = <<>>
    /\ calls["Instasaved"] > 0 /\ calls["IQSaved"] = 0

\* the engines in the order of the phases of run, and the phase of each
EngineOrder == <<"Mollygram", "StoriesViewer", "Instasaved", "IQSaved">>

PhaseOf == <<"molly", "viewer", "insta", "iq">>

\* the status run holds for each engine: NOT_TESTED until the call of the engine
\* has returned or the engine was skipped
status_of_engines == <<molly_status, storiesviewer_status, insta_status, iqsaved_status>>

\* the engine was called in this run and its call has not returned yet
Running(k) == calls[EngineOrder[k]] > 0 /\ status_of_engines[k] = "NOT_TESTED"

\* C36: the engines run one after the other: no two of them are running at the
\* same time, the one that is running is the one of the phase run is in, and an
\* engine is called only when every engine before it has returned its outcome
\* or was skipped.
C36_EnginesRunOneAfterTheOther ==
    /\ \A j, k \in DOMAIN EngineOrder : (Running(j) /\ Running(k)) => j = k
    /\ \A k \in DOMAIN EngineOrder : Running(k) => pc = PhaseOf[k]
    /\ \A j, k \in DOMAIN EngineOrder :
           (j < k /\ (calls[EngineOrder[k]] > 0 \/ pc = PhaseOf[k])) =>
               status_of_engines[j] # "NOT_TESTED"

\* StoriesViewer is in the middle of its call, on a later pass, after the call
\* of Mollygram returned without links; the other two engines have not started
C36_Witness ==
    /\ pc = "viewer" /\ attempt > 0 /\ Running(2)
    /\ calls["Mollygram"] > 0 /\ molly_status # "NOT_TESTED" /\ links_molly = <<>>
    /\ calls["Instasaved"] = 0 /\ calls["IQSaved"] = 0

\* no id occurs twice in the list
NoRepeat(l) == \A j, k \in DOMAIN l : j # k => l[j] # l[k]

\* C40: over any sequence of runs, a step of run that finds history.txt without
\* a repeated id leaves it without one, the ids a run is about to append being
\* pairwise distinct and none of them among the ids read at the start of the
\* run; and a run that has no id to append leaves history.txt as it is.
C40_LedgerStaysFreeOfRepeats ==
    [][/\ NoRepeat(history) => NoRepeat(history')
       /\ NoRepeat(ids_to_add)
       /\ \A k \in DOMAIN ids_to_add : ids_to_add[k] \notin Range(seen_ids)
       /\ (pc = "save" /\ ids_to_add = <<>>) => (history' = history)]_vars

\* the end of a second run that had nothing to append, after a first run that
\* appended b.mp4 to a history holding a.jpg
C40_Witness ==
    /\ run_no = 2 /\ pc = "done"
    /\ ids_to_add = <<>>
    /\ seen_ids = <<get_clean_id(UrlA), get_clean_id(UrlB)>>
    /\ history = seen_ids

=============================================================================
